---- MODULE Spec2Model ----
(***************************************************************************)
(* A model of the session-state core of mcp-assist:                        *)
(*   - ConversationHistory   (mcp_assist_dev/conversation_history.py)      *)
(*   - MCPAssistStatistics   (mcp_assist/statistics.py)                    *)
(* Each public method is one action; a method that raises leaves the       *)
(* mutations it made before the raise in place and records the exception   *)
(* in the result variable of its component.                                *)
(***************************************************************************)
EXTENDS Integers, Sequences, FiniteSets, TLC

(***************************************************************************)
(* Bounds of the model.                                                    *)
(***************************************************************************)
\* the clock (datetime.now(), in hours) runs over 0..MaxTime
MaxTime == 2
\* max_history_age_hours is drawn from 0..MaxAgeBound
MaxAgeBound == 1
\* max_turns_per_conversation is drawn from 0..MaxTurnsBound
MaxTurnsBound == 2
\* add_turn is called at most MaxAdds times in a run
MaxAdds == 3
\* the max_turns argument of get_recent_context is drawn from 0..MaxContextArg
MaxContextArg == 2
\* a caller edits a list it got from get_history at most MaxEdits times
MaxEdits == 2

\* date.today() runs over 0..MaxDay
MaxDay == 1
\* record_*, set_status and get_stats are called at most MaxCalls times in a run
MaxCalls == 3
\* add_listener is called at most MaxRegistrations times in a run
MaxRegistrations == 2
\* ListenerSpec makes at most MaxListenerCalls record_*/set_status calls in a run
MaxListenerCalls == 2

ConvIds == {"c1", "c2"}

\* the inputs of the statistics manager
Durations == {10, 20}
Tokens == {0, 5}
Statuses == {"online", "offline"}
\* the callbacks handed to add_listener: f reads get_stats (as the sensors'
\* _stats_updated does through async_write_ha_state), g raises an Exception
Callbacks == {"f", "g"}
\* callbacks that call a remove_listener closure while they are notified: u
\* its own, v the one of f
UnsubscribingCallbacks == {"u", "v"}

Min(a, b) == IF a <= b THEN a ELSE b
Max(a, b) == IF a >= b THEN a ELSE b

VARIABLES
    \* ---- ConversationHistory ----
    now,              \* datetime.now()
    max_history_age,  \* self.max_history_age
    max_turns,        \* self.max_turns
    conversations,    \* self._conversations: id -> list of turns
    seq_no,           \* number of add_turn calls so far; numbers the utterances
    added,            \* history variable: per id, the turns added since the id was last absent
    hres,             \* the last ConversationHistory call: what it was and how it ended
    \* ---- MCPAssistStatistics ----
    today,            \* date.today()
    stats,            \* the MCPAssistStatistics object: its fields
    listeners,        \* self._listeners
    handles,          \* the remove_listener closures returned so far: callback, and whether called before
    calls,            \* number of record_*/set_status/get_stats calls so far
    last_record_day,  \* history variable: day of the latest record_request/record_llm_call
    tres,             \* the last MCPAssistStatistics call: what it was and how it ended
    last_snapshot,    \* history variable: what get_stats returned, and when, if nothing was recorded since
    \* ---- TimingContext ----
    perf,             \* time.perf_counter(), in seconds
    timing,           \* the TimingContext object: its fields, and the calls made on it
    \* ---- domain registry ----
    reg               \* the last call of a registry function: its arguments and its result

hvars == <<now, max_history_age, max_turns, conversations, seq_no, added, hres>>

tvars == <<today, stats, listeners, handles, calls, last_record_day, tres, last_snapshot>>

cvars == <<perf, timing>>

rvars == <<reg>>

vars == <<hvars, tvars, cvars, rvars>>

(***************************************************************************)
(* Python list helpers.                                                    *)
(***************************************************************************)
\* seq[-k:] for k >= 0. Python reads -0 as 0, so seq[-0:] is the whole list.
SliceLast(seq, k) ==
    LET start == IF k = 0 THEN 0 ELSE Max(Len(seq) - k, 0)
    IN  SubSeq(seq, start + 1, Len(seq))

\* del d[c]
Remove(d, c) == [x \in (DOMAIN d) \ {c} |-> d[x]]

\* d[c] = v
Put(d, c, v) == [x \in (DOMAIN d) \cup {c} |-> IF x = c THEN v ELSE d[x]]

(***************************************************************************)
(* ConversationHistory                                                     *)
(***************************************************************************)
\* FreshTurns with the age filter left out
FreshTurnsNoAgeFilter(conversation, t, age) == conversation

\* the comprehension of _cleanup_conversation: turns newer than the cutoff
FreshTurns(conversation, t, age) ==
    LET cutoff_time == t - age
        Keep(turn) == turn.timestamp > cutoff_time
    IN  SelectSeq(conversation, Keep)

\* the count limit of _cleanup_conversation
LimitTurns(conversation, limit) ==
    IF Len(conversation) > limit THEN SliceLast(conversation, limit)
    ELSE conversation

\* DropEntry that keeps an emptied entry in the mapping
DropEntryNever(conversation) == FALSE

\* whether _cleanup_conversation deletes the entry
DropEntry(conversation) == conversation = <<>>

\* _cleanup_conversation(conversation_id) on mapping d at time t
\* an eviction pass that goes over every stored conversation, not only c
CleanupEveryConversation(d, c, t) ==
    LET limited(x) == LimitTurns(FreshTurns(d[x], t, max_history_age), max_turns)
        kept       == {x \in DOMAIN d : ~DropEntry(limited(x))}
    IN  [x \in kept |-> limited(x)]

Cleanup(d, c, t) ==
    IF c \notin DOMAIN d THEN d
    ELSE LET fresh   == FreshTurns(d[c], t, max_history_age)
             limited == LimitTurns(fresh, max_turns)
         IN  IF DropEntry(limited) THEN Remove(d, c) ELSE Put(d, c, limited)

\* held and after_edits are history: the list a caller holds from get_history
\* (with the edits made to it), and whether a get_history call followed such edits
NoResult == [op |-> "init", conv |-> "", t |-> 0, raised |-> "", ret |-> <<>>, arg |-> 0,
             held |-> <<>>, after_edits |-> FALSE]

HInit ==
    /\ now = 0
    /\ max_history_age \in 0..MaxAgeBound
    /\ max_turns \in 0..MaxTurnsBound
    /\ conversations = << >>
    /\ seq_no = 0
    /\ added = [c \in ConvIds |-> <<>>]
    /\ hres = NoResult

\* the history variable follows the mapping: an id that left it starts over
Track(a, d) == [c \in ConvIds |-> IF c \in DOMAIN d THEN a[c] ELSE <<>>]

\* time passes between calls
Tick ==
    /\ now < MaxTime
    /\ now' = now + 1
    /\ UNCHANGED <<max_history_age, max_turns, conversations, seq_no, added, hres>>
    /\ UNCHANGED <<tvars, cvars, rvars>>

\* add_turn(conversation_id, user_message, ...): append, clean up, then log
\* len(self._conversations[conversation_id]), which raises KeyError when the
\* cleanup deleted the entry
AddTurn(c) ==
    /\ seq_no < MaxAdds
    /\ LET turn     == [timestamp |-> now, user |-> seq_no + 1]
           base     == IF c \in DOMAIN conversations THEN conversations[c] ELSE <<>>
           appended == Put(conversations, c, Append(base, turn))
           cleaned  == Cleanup(appended, c, now)
       IN  /\ conversations' = cleaned
           /\ added' = Track([added EXCEPT ![c] = Append(@, turn)], cleaned)
           /\ hres' = [op |-> "add_turn", conv |-> c, t |-> now,
                       raised |-> IF c \in DOMAIN cleaned THEN "" ELSE "KeyError",
                       ret |-> <<>>, arg |-> 0, held |-> <<>>, after_edits |-> FALSE]
    /\ seq_no' = seq_no + 1
    /\ UNCHANGED <<now, max_history_age, max_turns>>
    /\ UNCHANGED <<tvars, cvars, rvars>>

\* returning the stored list itself
ListNoCopy(conversation) == [turns |-> conversation, alias |-> TRUE]

\* conversation.copy(): a new list of the same turns; alias tells whether the
\* list returned is the stored list object
ListCopy(conversation) == [turns |-> conversation, alias |-> FALSE]

\* the outcome of get_history(c): the mapping after the call, the exception
\* raised (if any) and the list returned
GetHistoryOutcome(d, c, t) ==
    IF c \notin DOMAIN d
    THEN [conv |-> d, raised |-> "", ret |-> <<>>, alias |-> FALSE]
    ELSE LET cleaned == Cleanup(d, c, t)
         IN  IF c \in DOMAIN cleaned
             THEN [conv |-> cleaned, raised |-> "", ret |-> ListCopy(cleaned[c]).turns,
                   alias |-> ListCopy(cleaned[c]).alias]
             ELSE [conv |-> cleaned, raised |-> "KeyError", ret |-> <<>>, alias |-> FALSE]

GetHistory(c) ==
    /\ LET out == GetHistoryOutcome(conversations, c, now)
       IN  /\ conversations' = out.conv
           /\ added' = Track(added, out.conv)
           /\ hres' = [op |-> "get_history", conv |-> c, t |-> now,
                       raised |-> out.raised, ret |-> out.ret, arg |-> 0,
                       held |-> IF out.raised = ""
                                THEN <<[turns |-> out.ret, alias |-> out.alias, edits |-> 0]>>
                                ELSE <<>>,
                       after_edits |-> /\ hres.op = "get_history"
                                       /\ hres.conv = c
                                       /\ hres.held # <<>>
                                       /\ hres.held[1].edits > 0]
    /\ UNCHANGED <<now, max_history_age, max_turns, seq_no>>
    /\ UNCHANGED <<tvars, cvars, rvars>>

\* the turns get_recent_context renders: history[-max_turns:] if longer
RecentTurns(history, k) ==
    IF Len(history) > k THEN SliceLast(history, k) ELSE history

\* get_recent_context(c, k); ret holds the turns rendered, in order (the
\* empty string is the empty sequence of rendered turns)
GetRecentContext(c, k) ==
    /\ LET out == GetHistoryOutcome(conversations, c, now)
       IN  /\ conversations' = out.conv
           /\ added' = Track(added, out.conv)
           /\ hres' = [op |-> "get_recent_context", conv |-> c, t |-> now,
                       raised |-> out.raised,
                       ret |-> IF out.raised = "" THEN RecentTurns(out.ret, k) ELSE <<>>,
                       arg |-> k, held |-> <<>>, after_edits |-> FALSE]
    /\ UNCHANGED <<now, max_history_age, max_turns, seq_no>>
    /\ UNCHANGED <<tvars, cvars, rvars>>

\* a clear_conversation that deletes the entry without testing for it
ClearConversationUnchecked(c) ==
    /\ conversations' = IF c \in DOMAIN conversations THEN Remove(conversations, c)
                        ELSE conversations
    /\ added' = Track(added, conversations')
    /\ hres' = [op |-> "clear_conversation", conv |-> c, t |-> now,
                raised |-> IF c \in DOMAIN conversations THEN "" ELSE "KeyError",
                ret |-> <<>>, arg |-> 0, held |-> <<>>, after_edits |-> FALSE]
    /\ UNCHANGED <<now, max_history_age, max_turns, seq_no>>
    /\ UNCHANGED <<tvars, cvars, rvars>>

ClearConversation(c) ==
    /\ conversations' = IF c \in DOMAIN conversations THEN Remove(conversations, c)
                        ELSE conversations
    /\ added' = Track(added, conversations')
    /\ hres' = [op |-> "clear_conversation", conv |-> c, t |-> now,
                raised |-> "", ret |-> <<>>, arg |-> 0, held |-> <<>>, after_edits |-> FALSE]
    /\ UNCHANGED <<now, max_history_age, max_turns, seq_no>>
    /\ UNCHANGED <<tvars, cvars, rvars>>

ClearAll ==
    /\ conversations' = << >>
    /\ added' = [c \in ConvIds |-> <<>>]
    /\ hres' = [op |-> "clear_all", conv |-> "", t |-> now,
                raised |-> "", ret |-> <<>>, arg |-> 0, held |-> <<>>, after_edits |-> FALSE]
    /\ UNCHANGED <<now, max_history_age, max_turns, seq_no>>
    /\ UNCHANGED <<tvars, cvars, rvars>>

\* what a caller does to the list get_history gave it
ListEdits == {"append", "pop", "reverse"}

\* a value that is not one of the stored turns
ForeignItem == [timestamp |-> 0, user |-> 0]

RECURSIVE Reversed(_)
Reversed(seq) == IF seq = <<>> THEN <<>> ELSE Append(Reversed(Tail(seq)), Head(seq))

\* list.append(x), list.pop(0), list.reverse()
Edited(turns, edit) ==
    IF edit = "append" THEN Append(turns, ForeignItem)
    ELSE IF edit = "pop" THEN Tail(turns)
    ELSE Reversed(turns)

\* the caller edits the list it holds; the stored list changes with it only
\* if it is the same list object
EditReturnedList(edit) ==
    /\ hres.op = "get_history"
    /\ hres.held # <<>>
    /\ hres.held[1].edits < MaxEdits
    /\ edit = "pop" => hres.held[1].turns # <<>>
    /\ LET turns == Edited(hres.held[1].turns, edit)
       IN  /\ hres' = [hres EXCEPT !.held = <<[turns |-> turns, alias |-> hres.held[1].alias,
                                               edits |-> hres.held[1].edits + 1]>>]
           /\ conversations' =
                 IF hres.held[1].alias /\ hres.conv \in DOMAIN conversations
                 THEN Put(conversations, hres.conv, turns)
                 ELSE conversations
    /\ UNCHANGED <<now, max_history_age, max_turns, seq_no, added>>
    /\ UNCHANGED <<tvars, cvars, rvars>>

\* turn["user"] = another text, written as the negated number of the utterance
EditedTurn(turn) == [turn EXCEPT !.user = -turn.user]

\* the caller changes a field of turn i of the list it holds. The copy
\* get_history made is a new list of the same dict objects (utterance numbers
\* are unique, so equal records are one object): the stored turn is that
\* object and changes with it
EditReturnedTurn(i) ==
    /\ hres.op = "get_history"
    /\ hres.held # <<>>
    /\ hres.held[1].edits < MaxEdits
    /\ i \in 1..Len(hres.held[1].turns)
    /\ LET turn == hres.held[1].turns[i]
       IN  /\ hres' = [hres EXCEPT !.held =
                          <<[turns |-> [hres.held[1].turns EXCEPT ![i] = EditedTurn(turn)],
                             alias |-> hres.held[1].alias,
                             edits |-> hres.held[1].edits + 1]>>]
           /\ conversations' =
                 [c \in DOMAIN conversations |->
                     [j \in 1..Len(conversations[c]) |->
                         IF conversations[c][j] = turn THEN EditedTurn(turn)
                         ELSE conversations[c][j]]]
    /\ UNCHANGED <<now, max_history_age, max_turns, seq_no, added>>
    /\ UNCHANGED <<tvars, cvars, rvars>>

\* get_stats(): the counts it reports
total_conversations(d) == Cardinality(DOMAIN d)

RECURSIVE SumLen(_, _)
SumLen(d, ids) ==
    IF ids = {} THEN 0
    ELSE LET c == CHOOSE x \in ids : TRUE
         IN  Len(d[c]) + SumLen(d, ids \ {c})

total_turns(d) == SumLen(d, DOMAIN d)

\* a get_stats that runs the eviction pass over the mapping before counting
HistoryGetStatsEvicts ==
    /\ conversations' = CleanupEveryConversation(conversations, "", now)
    /\ added' = Track(added, conversations')
    /\ hres' = [op |-> "get_stats", conv |-> "", t |-> now, raised |-> "",
                ret |-> <<total_conversations(conversations'), total_turns(conversations')>>,
                arg |-> 0, held |-> <<>>, after_edits |-> FALSE]
    /\ UNCHANGED <<now, max_history_age, max_turns, seq_no>>
    /\ UNCHANGED <<tvars, cvars, rvars>>

HistoryGetStats ==
    /\ hres' = [op |-> "get_stats", conv |-> "", t |-> now, raised |-> "",
                ret |-> <<total_conversations(conversations), total_turns(conversations)>>,
                arg |-> 0, held |-> <<>>, after_edits |-> FALSE]
    /\ UNCHANGED <<now, max_history_age, max_turns, conversations, seq_no, added>>
    /\ UNCHANGED <<tvars, cvars, rvars>>

\* a ConversationHistory nobody calls
HIdle ==
    /\ HInit
    /\ max_history_age = MaxAgeBound
    /\ max_turns = MaxTurnsBound

(***************************************************************************)
(* ResponseTimeTracker and MCPAssistStatistics.  Durations are in          *)
(* milliseconds; values that the code rounds to one decimal are held in    *)
(* tenths.                                                                 *)
(***************************************************************************)
\* deque(maxlen=100)
MaxSamples == 100

\* an append that, on a full deque, keeps what it holds and drops the new sample
DequeAppendDropsNewest(q, x) ==
    IF Len(q) >= MaxSamples THEN q ELSE Append(q, x)

\* deque.append on a deque of maxlen MaxSamples
DequeAppend(q, x) ==
    LET a == Append(q, x)
    IN  IF Len(a) > MaxSamples THEN Tail(a) ELSE a

RECURSIVE Sum(_)
Sum(q) == IF q = <<>> THEN 0 ELSE Head(q) + Sum(Tail(q))

\* round(num / den, 0) for num >= 0, den > 0: Python rounds a tie to even
RoundHalfEven(num, den) ==
    LET q == num \div den
        r == num % den
    IN  IF 2 * r < den THEN q
        ELSE IF 2 * r > den THEN q + 1
        ELSE IF q % 2 = 0 THEN q ELSE q + 1

(***************************************************************************)
(* Float arithmetic.  a / b is the double nearest to the quotient (ties to *)
(* even): with 2^52 <= a * 2^k / b < 2^53, q the integer part of           *)
(* a * 2^k / b and r the remainder, the double is (q + c) / 2^k, c being   *)
(* the rounding carry.  Only r, c and the low bits of q decide how later   *)
(* roundings fall, and these are computed modulo small numbers.            *)
(***************************************************************************)
\* (a * 2^k) mod m
RECURSIVE Pow2Mod(_, _, _)
Pow2Mod(a, k, m) == IF k = 0 THEN a % m ELSE Pow2Mod((2 * a) % m, k - 1, m)

\* the j >= 0 with b <= a * 2^j < 2b, 0 when a >= b
RECURSIVE Normalise(_, _)
Normalise(a, b) == IF a >= b THEN 0 ELSE 1 + Normalise(2 * a, b)

\* the i >= 0 with b <= a / 2^i < 2b, 0 when a < 2b
RECURSIVE Halvings(_, _)
Halvings(a, b) == IF a < 2 * b THEN 0 ELSE 1 + Halvings(a, 2 * b)

\* a / b for integers a >= 0, b > 0: the remainder r, the carry c, the low
\* eight bits of the mantissa q + c, and the normalising shift j. The double
\* exceeds the quotient by (c * b - r) / (b * 2^k).
FloatDiv(a, b) ==
    IF a = 0 THEN [low |-> 0, r |-> 0, c |-> 0, j |-> 0]
    ELSE LET j == Normalise(a, b)
             k == 52 + j - Halvings(a, b)
             R == Pow2Mod(a, k, 256 * b)
             q == R \div b
             r == R % b
             c == IF 2 * r > b \/ (2 * r = b /\ q % 2 = 1) THEN 1 ELSE 0
         IN  [low |-> (q + c) % 256, r |-> r, c |-> c, j |-> j]

\* round(x, 0) for a double x that is num / den up to an error of sign err
\* (num >= 0, den > 0, the error far smaller than 1 / den): the error decides
\* where num / den lies halfway, and Python rounds an exact tie to even
RoundFloat(num, den, err) ==
    LET q == num \div den
        r == num % den
    IN  IF 2 * r < den THEN q
        ELSE IF 2 * r > den THEN q + 1
        ELSE IF err > 0 THEN q + 1
        ELSE IF err < 0 THEN q
        ELSE IF q % 2 = 0 THEN q ELSE q + 1

\* round(sum(q) / len(q), 1) in tenths, 0.0 for an empty window
AvgTenths(q) ==
    IF q = <<>> THEN 0
    ELSE LET d == FloatDiv(Sum(q), Len(q))
         IN  RoundFloat(10 * Sum(q), Len(q), d.c * Len(q) - d.r)

\* the carry of rounding the product P to a multiple of pw, ties to even
MulCarry(P, pw) ==
    IF 2 * (P % pw) > pw \/ (2 * (P % pw) = pw /\ (P \div pw) % 2 = 1) THEN 1 ELSE 0

\* what rounds away of the product 100 * (q + c): it has 59 or 60 bits (60
\* from a mantissa of 1.28 on) and is rounded to 53
MulUnit(hits, total, j) == IF 25 * hits * (2 ^ j) < 32 * total THEN 64 ELSE 128

\* the sign of what the division d and the multiplication by 100 together
\* added to 100 * hits / total
RateError(total, d, pw) ==
    total * ((100 * d.c - ((100 * d.low) % pw)) + MulCarry(100 * d.low, pw) * pw) - 100 * d.r

RateOf(hits, total, d) ==
    RoundFloat(1000 * hits, total, RateError(total, d, MulUnit(hits, total, d.j)))

\* round((hits / total) * 100, 1) in tenths, 0.0 when total is 0
RateTenths(hits, total) ==
    IF total = 0 THEN 0 ELSE RateOf(hits, total, FloatDiv(hits, total))

fast_path_rate(st) == RateTenths(st.fast_path_hits, st.fast_path_hits + st.fast_path_misses)

pre_resolve_rate(st) == RateTenths(st.pre_resolve_hits, st.pre_resolve_attempts)

\* MCPAssistStatistics.__init__ on day d; None is the empty sequence
NewStats(d) ==
    [fast_path_times |-> <<>>, llm_times |-> <<>>,
     fast_path_last |-> 0, llm_last |-> 0,
     fast_path_hits |-> 0, fast_path_misses |-> 0,
     pre_resolve_hits |-> 0, pre_resolve_attempts |-> 0,
     llm_calls |-> 0, llm_errors |-> 0, tokens_used |-> 0,
     current_date |-> d,
     requests_today |-> 0, llm_calls_today |-> 0, tokens_today |-> 0,
     status |-> "online", last_request_time |-> <<>>]

\* CheckDateRollover that forgets the LLM counters of the day
CheckDateRolloverKeepsLlm(st, d) ==
    IF d # st.current_date
    THEN [st EXCEPT !.current_date = d, !.requests_today = 0]
    ELSE st

\* _check_date_rollover() when date.today() is d
\* a rollover that also restarts the cumulative counters
CheckDateRolloverResetsTotals(st, d) ==
    IF d # st.current_date
    THEN [st EXCEPT !.current_date = d, !.requests_today = 0,
                    !.llm_calls_today = 0, !.tokens_today = 0,
                    !.llm_calls = 0, !.tokens_used = 0]
    ELSE st

CheckDateRollover(st, d) ==
    IF d # st.current_date
    THEN [st EXCEPT !.current_date = d, !.requests_today = 0,
                    !.llm_calls_today = 0, !.tokens_today = 0]
    ELSE st

\* the dictionary get_stats builds from the fields
StatsDict(st) ==
    [status |-> st.status,
     last_request_time |-> st.last_request_time,
     fast_path_avg_response_time |-> AvgTenths(st.fast_path_times),
     fast_path_last_response_time |-> 10 * st.fast_path_last,
     llm_avg_response_time |-> AvgTenths(st.llm_times),
     llm_last_response_time |-> 10 * st.llm_last,
     fast_path_hits |-> st.fast_path_hits,
     fast_path_misses |-> st.fast_path_misses,
     fast_path_rate |-> fast_path_rate(st),
     pre_resolve_hits |-> st.pre_resolve_hits,
     pre_resolve_attempts |-> st.pre_resolve_attempts,
     pre_resolve_rate |-> pre_resolve_rate(st),
     llm_calls_total |-> st.llm_calls,
     llm_calls_today |-> st.llm_calls_today,
     llm_errors |-> st.llm_errors,
     tokens_used_total |-> st.tokens_used,
     tokens_used_today |-> st.tokens_today,
     requests_today |-> st.requests_today]

\* GetStats that counts itself as a request once the dictionary is built
GetStatsCountsRequest(st, d) ==
    LET st1 == IF d # st.current_date
               THEN [st EXCEPT !.current_date = d, !.requests_today = 0,
                               !.llm_calls_today = 0, !.tokens_today = 0]
               ELSE st
    IN  [st |-> [st1 EXCEPT !.requests_today = @ + 1],
         ret |-> StatsDict(st1)]

\* GetStats without the rollover check
GetStatsNoRollover(st, d) == [st |-> st, ret |-> StatsDict(st)]

\* get_stats() when date.today() is d: the object after the call and the
\* dictionary returned
GetStats(st, d) ==
    LET st1 == CheckDateRollover(st, d)
    IN  [st |-> st1, ret |-> StatsDict(st1)]

\* list.remove(cb) guarded by "cb in list": the first occurrence goes
RECURSIVE RemoveFirst(_, _)
RemoveFirst(ls, cb) ==
    IF ls = <<>> THEN <<>>
    ELSE IF Head(ls) = cb THEN Tail(ls)
    ELSE <<Head(ls)>> \o RemoveFirst(Tail(ls), cb)

\* the remove_listener closure of add_listener(cb)
RemoveListener(ls, cb) ==
    IF \E i \in 1..Len(ls) : ls[i] = cb THEN RemoveFirst(ls, cb) ELSE ls

\* one listener() call of _notify_listeners, for callback cb: what it does to
\* the object and the listener list, what it saw, and whether it raised
InvokeListener(cb, st, ls, d) ==
    IF cb = "f"
    THEN LET got == GetStats(st, d)
         IN  [st |-> got.st, ls |-> ls, seen |-> <<got.ret>>, raised |-> FALSE]
    ELSE IF cb = "u"
    THEN [st |-> st, ls |-> RemoveListener(ls, "u"), seen |-> <<>>, raised |-> FALSE]
    ELSE IF cb = "v"
    THEN [st |-> st, ls |-> RemoveListener(ls, "f"), seen |-> <<>>, raised |-> FALSE]
    ELSE [st |-> st, ls |-> ls, seen |-> <<>>, raised |-> TRUE]

LogEntry(cb, r) == [cb |-> cb, seen |-> r.seen, raised |-> r.raised]

\* NotifyFrom without the try/except: a listener's exception ends the loop
\* and leaves the method
RECURSIVE NotifyFromNoCatch(_, _, _, _, _)
NotifyFromNoCatch(i, st, ls, d, log) ==
    IF i > Len(ls) THEN [st |-> st, ls |-> ls, log |-> log, raised |-> ""]
    ELSE LET r == InvokeListener(ls[i], st, ls, d)
         IN  IF r.raised
             THEN [st |-> r.st, ls |-> r.ls, log |-> Append(log, LogEntry(ls[i], r)),
                   raised |-> "Exception"]
             ELSE NotifyFromNoCatch(i + 1, r.st, r.ls, d, Append(log, LogEntry(ls[i], r)))

\* the loop of _notify_listeners from position i of the list: the list
\* iterator reads the list as it is at each step; an Exception of a listener
\* is caught and logged
RECURSIVE NotifyFrom(_, _, _, _, _)
NotifyFrom(i, st, ls, d, log) ==
    IF i > Len(ls) THEN [st |-> st, ls |-> ls, log |-> log, raised |-> ""]
    ELSE LET r == InvokeListener(ls[i], st, ls, d)
         IN  NotifyFrom(i + 1, r.st, r.ls, d, Append(log, LogEntry(ls[i], r)))

\* _notify_listeners()
NotifyListeners(st, ls, d) == NotifyFrom(1, st, ls, d, <<>>)

RecordRequest(st, ls, d) ==
    LET st1 == CheckDateRollover(st, d)
        st2 == [st1 EXCEPT !.requests_today = @ + 1, !.last_request_time = <<d>>]
    IN  NotifyListeners(st2, ls, d)

\* RecordFastPathHit that notifies before it records
RecordFastPathHitNotifyFirst(st, ls, d, duration_ms) ==
    LET out == NotifyListeners(st, ls, d)
    IN  [out EXCEPT !.st = [out.st EXCEPT
                              !.fast_path_hits = @ + 1,
                              !.fast_path_times = DequeAppend(@, duration_ms),
                              !.fast_path_last = duration_ms]]

RecordFastPathHit(st, ls, d, duration_ms) ==
    LET st1 == [st EXCEPT !.fast_path_hits = @ + 1,
                          !.fast_path_times = DequeAppend(@, duration_ms),
                          !.fast_path_last = duration_ms]
    IN  NotifyListeners(st1, ls, d)

\* RecordFastPathMiss with the rollover check of record_request in front
RecordFastPathMissRollsOver(st, ls, d) ==
    NotifyListeners([CheckDateRollover(st, d) EXCEPT !.fast_path_misses = @ + 1], ls, d)

RecordFastPathMiss(st, ls, d) ==
    NotifyListeners([st EXCEPT !.fast_path_misses = @ + 1], ls, d)

\* record_pre_resolve_attempt that counts a success as a hit and not as an attempt
RecordPreResolveAttemptHitOnly(st, ls, d, success) ==
    LET st2 == IF success THEN [st EXCEPT !.pre_resolve_hits = @ + 1]
               ELSE [st EXCEPT !.pre_resolve_attempts = @ + 1]
    IN  NotifyListeners(st2, ls, d)

RecordPreResolveAttempt(st, ls, d, success) ==
    LET st1 == [st EXCEPT !.pre_resolve_attempts = @ + 1]
        st2 == IF success THEN [st1 EXCEPT !.pre_resolve_hits = @ + 1] ELSE st1
    IN  NotifyListeners(st2, ls, d)

RecordLlmCall(st, ls, d, duration_ms, tokens) ==
    LET st1 == CheckDateRollover(st, d)
        st2 == [st1 EXCEPT !.llm_calls = @ + 1,
                           !.llm_calls_today = @ + 1,
                           !.tokens_used = @ + tokens,
                           !.tokens_today = @ + tokens,
                           !.llm_times = DequeAppend(@, duration_ms),
                           !.llm_last = duration_ms]
    IN  NotifyListeners(st2, ls, d)

RecordLlmError(st, ls, d) ==
    NotifyListeners([st EXCEPT !.llm_errors = @ + 1], ls, d)

SetStatus(st, ls, d, status) ==
    NotifyListeners([st EXCEPT !.status = status], ls, d)

NoCall == [op |-> "init", arg |-> <<>>, day |-> 0, date_before |-> 0, raised |-> "",
           registered |-> <<>>, log |-> <<>>, ret |-> <<>>]

TInit ==
    /\ today = 0
    /\ stats = NewStats(0)
    /\ listeners = <<>>
    /\ handles = <<>>
    /\ calls = 0
    /\ last_record_day = -1
    /\ tres = NoCall
    /\ last_snapshot = <<>>

\* midnight passes between calls
NextDay ==
    /\ today < MaxDay
    /\ today' = today + 1
    /\ UNCHANGED <<stats, listeners, handles, calls, last_record_day, tres, last_snapshot>>
    /\ UNCHANGED <<hvars, cvars, rvars>>

\* what the last listener that read get_stats received, if any did
RECURSIVE LastSeen(_, _)
LastSeen(log, d) ==
    IF log = <<>> THEN <<>>
    ELSE IF log[Len(log)].seen # <<>>
         THEN <<[ret |-> log[Len(log)].seen[1], day |-> d]>>
         ELSE LastSeen(SubSeq(log, 1, Len(log) - 1), d)

\* a record_*/set_status call that ended as out, in a run of at most limit calls
CalledWithin(limit, op, arg, out) ==
    /\ calls < limit
    /\ calls' = calls + 1
    /\ stats' = out.st
    /\ listeners' = out.ls
    /\ tres' = [op |-> op, arg |-> arg, day |-> today,
                date_before |-> stats.current_date, raised |-> out.raised,
                registered |-> listeners, log |-> out.log, ret |-> <<>>]
    /\ last_snapshot' = LastSeen(out.log, today)
    /\ UNCHANGED <<today, handles>>
    /\ UNCHANGED <<hvars, rvars>>

Called(op, arg, out) == CalledWithin(MaxCalls, op, arg, out)

DoRecordRequest ==
    /\ Called("record_request", <<>>, RecordRequest(stats, listeners, today))
    /\ last_record_day' = today
    /\ UNCHANGED cvars

DoRecordFastPathHit(duration_ms) ==
    /\ Called("record_fast_path_hit", <<duration_ms>>,
              RecordFastPathHit(stats, listeners, today, duration_ms))
    /\ UNCHANGED <<last_record_day, cvars>>

DoRecordFastPathMiss ==
    /\ Called("record_fast_path_miss", <<>>, RecordFastPathMiss(stats, listeners, today))
    /\ UNCHANGED <<last_record_day, cvars>>

DoRecordPreResolveAttempt(success) ==
    /\ Called("record_pre_resolve_attempt", <<success>>,
              RecordPreResolveAttempt(stats, listeners, today, success))
    /\ UNCHANGED <<last_record_day, cvars>>

DoRecordLlmCall(duration_ms, tokens) ==
    /\ Called("record_llm_call", <<duration_ms, tokens>>,
              RecordLlmCall(stats, listeners, today, duration_ms, tokens))
    /\ last_record_day' = today
    /\ UNCHANGED cvars

DoRecordLlmError ==
    /\ Called("record_llm_error", <<>>, RecordLlmError(stats, listeners, today))
    /\ UNCHANGED <<last_record_day, cvars>>

DoSetStatus(status) ==
    /\ Called("set_status", <<status>>, SetStatus(stats, listeners, today, status))
    /\ UNCHANGED <<last_record_day, cvars>>

DoGetStats ==
    /\ calls < MaxCalls
    /\ calls' = calls + 1
    /\ LET got == GetStats(stats, today)
       IN  /\ stats' = got.st
           /\ tres' = [op |-> "get_stats", arg |-> <<>>, day |-> today,
                date_before |-> stats.current_date, raised |-> "",
                       registered |-> listeners, log |-> <<>>, ret |-> <<got.ret>>]
           /\ last_snapshot' = <<[ret |-> got.ret, day |-> today]>>
    /\ UNCHANGED <<today, listeners, handles, last_record_day>>
    /\ UNCHANGED <<hvars, cvars, rvars>>

\* add_listener(cb): the callback is appended and a closure returned
AddListener(cb) ==
    /\ Len(handles) < MaxRegistrations
    /\ listeners' = Append(listeners, cb)
    /\ handles' = Append(handles, [cb |-> cb, called |-> FALSE])
    /\ tres' = [op |-> "add_listener", arg |-> <<cb>>, day |-> today,
                date_before |-> stats.current_date, raised |-> "",
                registered |-> listeners, log |-> <<>>, ret |-> <<>>]
    /\ UNCHANGED <<today, stats, calls, last_record_day, last_snapshot>>
    /\ UNCHANGED <<hvars, cvars, rvars>>

\* a call of the h-th closure returned by add_listener
Unsubscribe(h) ==
    /\ listeners' = RemoveListener(listeners, handles[h].cb)
    /\ handles' = [handles EXCEPT ![h].called = TRUE]
    /\ tres' = [op |-> "remove_listener", arg |-> <<h>>, day |-> today,
                date_before |-> stats.current_date, raised |-> "",
                registered |-> listeners, log |-> <<>>, ret |-> <<>>]
    /\ UNCHANGED <<today, stats, calls, last_record_day, last_snapshot>>
    /\ UNCHANGED <<hvars, cvars, rvars>>

(***************************************************************************)
(* The specifications.  Spec runs the ConversationHistory with the         *)
(* statistics manager idle.  TelemetrySpec runs the statistics manager     *)
(* through its record_*, set_status and get_stats calls and the change of  *)
(* day, with at most one listener, which reads get_stats.  ListenerSpec    *)
(* runs add_listener, the closures it returns and the notifying calls,     *)
(* fewer of them and within one day, over every list of listeners.         *)
(***************************************************************************)
\* ---- TimingContext ----

MaxPerf == 2
MaxTimingOps == 4

\* operation_type: "fast_path", "llm", or any other string
OperationTypes == {"fast_path", "llm", "other"}

\* tokens_callback: None, a callable that returns a count, or one that raises
NoCallback == [kind |-> "none", tokens |-> 0]
TokensCallbacks ==
    {NoCallback, [kind |-> "raises", tokens |-> 0]}
        \cup {[kind |-> "returns", tokens |-> k] : k \in Tokens}

\* TimingContext(stats, operation_type, tokens_callback) after __init__.
\* trail, exc, returned and recorded are history: the calls made on the
\* object, whether the last __exit__ was given an exception, what it returned,
\* and how many samples the aggregator took since the last __enter__
NewTiming(operation_type, tokens_callback) ==
    [operation_type |-> operation_type, tokens_callback |-> tokens_callback,
     start_time |-> <<>>, trail |-> <<>>, exc |-> FALSE, returned |-> <<>>,
     recorded |-> 0]

\* __enter__ when time.perf_counter() is pc
Enter(t, pc) == [t EXCEPT !.start_time = <<pc>>]

\* mark_failed that leaves _start_time alone
MarkFailedKeepsStart(t) == t

\* mark_failed
MarkFailed(t) == [t EXCEPT !.start_time = <<>>]

\* the tokens __exit__ passes on: 0 unless the callback is there and returns
ExitTokens(t) ==
    IF t.tokens_callback.kind = "returns" THEN t.tokens_callback.tokens ELSE 0

NothingRecorded == [op |-> "", arg |-> <<>>, ret |-> FALSE]

\* __exit__(exc_type, exc_val, exc_tb) when time.perf_counter() is pc and
\* date.today() is d: the record_* call it makes, if any, and what it returns
ExitRecords(t, st, ls, d, pc) ==
    LET duration_ms == (pc - t.start_time[1]) * 1000
    IN  IF t.operation_type = "fast_path"
        THEN [op |-> "record_fast_path_hit", arg |-> <<duration_ms>>, ret |-> FALSE,
              out |-> RecordFastPathHit(st, ls, d, duration_ms)]
        ELSE IF t.operation_type = "llm"
        THEN [op |-> "record_llm_call", arg |-> <<duration_ms, ExitTokens(t)>>,
              ret |-> FALSE,
              out |-> RecordLlmCall(st, ls, d, duration_ms, ExitTokens(t))]
        ELSE NothingRecorded

\* __exit__ that records only when no exception is propagating
ExitSkipsOnException(t, st, ls, d, pc, exc) ==
    IF t.start_time # <<>> /\ ~exc THEN ExitRecords(t, st, ls, d, pc) ELSE NothingRecorded

\* __exit__ without the try/except around the token callback: its exception
\* leaves __exit__ before record_llm_call
ExitNoCatch(t, st, ls, d, pc, exc) ==
    IF t.start_time # <<>>
       /\ ~(t.operation_type = "llm" /\ t.tokens_callback.kind = "raises")
    THEN ExitRecords(t, st, ls, d, pc) ELSE NothingRecorded

Exit(t, st, ls, d, pc, exc) ==
    IF t.start_time # <<>> THEN ExitRecords(t, st, ls, d, pc) ELSE NothingRecorded

\* the timing samples the aggregator has taken
Samples(st) == st.fast_path_hits + st.llm_calls

\* time.perf_counter() advances
PerfTick ==
    /\ perf < MaxPerf
    /\ perf' = perf + 1
    /\ UNCHANGED timing
    /\ UNCHANGED <<hvars, tvars, rvars>>

DoEnter ==
    /\ Len(timing.trail) < MaxTimingOps
    /\ timing' = [Enter(timing, perf) EXCEPT !.trail = Append(@, "enter"),
                                             !.recorded = 0]
    /\ UNCHANGED perf
    /\ UNCHANGED <<hvars, tvars, rvars>>

DoMarkFailed ==
    /\ Len(timing.trail) < MaxTimingOps
    /\ timing' = [MarkFailed(timing) EXCEPT !.trail = Append(@, "mark_failed")]
    /\ UNCHANGED perf
    /\ UNCHANGED <<hvars, tvars, rvars>>

\* the with block ends, with an exception propagating (exc) or without
DoExit(exc) ==
    LET r == Exit(timing, stats, listeners, today, perf, exc)
    IN  /\ Len(timing.trail) < MaxTimingOps
        /\ IF r.op # ""
           THEN /\ Called(r.op, r.arg, r.out)
                /\ last_record_day' =
                      IF r.op = "record_llm_call" THEN today ELSE last_record_day
           ELSE /\ UNCHANGED tvars
                /\ UNCHANGED <<hvars, rvars>>
        /\ timing' = [timing EXCEPT !.trail = Append(@, "exit"), !.exc = exc,
                                    !.returned = <<r.ret>>,
                                    !.recorded = @ + Samples(stats') - Samples(stats)]
        /\ UNCHANGED perf

\* a TimingContext nobody uses
CIdle ==
    /\ perf = 0
    /\ timing = NewTiming("fast_path", NoCallback)

\* ---- domain registry ----

TYPE_CONTROLLABLE == "controllable"
TYPE_READ_ONLY == "read_only"
TYPE_SERVICE_ONLY == "service_only"

PRIORITY_ESSENTIAL == 1
PRIORITY_COMMON == 2
PRIORITY_STANDARD == 3
PRIORITY_EXTENDED == 4
PRIORITY_SPECIALIZED == 5

\* DOMAIN_REGISTRY.keys(): the domains in the order of the table
DOMAIN_REGISTRY_keys ==
    <<"light", "switch", "cover", "climate", "lock", "scene", "script", "automation",
        "fan", "media_player", "vacuum", "alarm_control_panel", "camera", "sensor",
        "binary_sensor", "device_tracker", "input_boolean", "input_number",
        "input_text", "input_select", "input_datetime", "input_button", "timer",
        "counter", "person", "zone", "group", "select", "number", "button", "update",
        "text", "date", "time", "datetime", "water_heater", "humidifier", "siren",
        "valve", "lawn_mower", "weather", "sun", "notify", "tts",
        "persistent_notification">>

\* DOMAIN_REGISTRY, without the descriptions. A missing "required" or "optional"
\* list is written as the empty list that .get() substitutes; error_message is
\* <<>> where the entry has none.
DOMAIN_REGISTRY ==
    [light |-> [type |-> TYPE_CONTROLLABLE, priority |-> PRIORITY_ESSENTIAL, services |->
         <<"turn_on", "turn_off", "toggle">>, parameters |-> [turn_on |-> [required |->
         <<>>, optional |-> <<"transition", "brightness", "brightness_pct",
         "brightness_step", "brightness_step_pct", "rgb_color", "rgbw_color",
         "rgbww_color", "color_name", "hs_color", "xy_color", "color_temp",
         "color_temp_kelvin", "white", "profile", "flash", "effect">>], turn_off |->
         [required |-> <<>>, optional |-> <<"transition", "flash">>], toggle |-> [required
         |-> <<>>, optional |-> <<"transition", "brightness", "brightness_pct",
         "rgb_color", "color_temp", "effect">>]], error_message |-> <<>>],
     switch |-> [type |-> TYPE_CONTROLLABLE, priority |-> PRIORITY_ESSENTIAL, services |->
         <<"turn_on", "turn_off", "toggle">>, parameters |-> <<>>, error_message |-> <<>>],
     cover |-> [type |-> TYPE_CONTROLLABLE, priority |-> PRIORITY_ESSENTIAL, services |->
         <<"open_cover", "close_cover", "stop_cover", "toggle", "set_cover_position",
         "open_cover_tilt", "close_cover_tilt", "stop_cover_tilt",
         "set_cover_tilt_position">>, parameters |-> [set_cover_position |-> [required |->
         <<"position">>, optional |-> <<>>], set_cover_tilt_position |-> [required |->
         <<"tilt_position">>, optional |-> <<>>]], error_message |-> <<>>],
     climate |-> [type |-> TYPE_CONTROLLABLE, priority |-> PRIORITY_ESSENTIAL, services
         |-> <<"set_temperature", "set_hvac_mode", "set_preset_mode", "set_fan_mode",
         "set_humidity", "set_swing_mode", "set_swing_horizontal_mode", "turn_on",
         "turn_off", "toggle">>, parameters |-> [set_temperature |-> [required |-> <<>>,
         optional |-> <<"temperature", "target_temp_high", "target_temp_low",
         "hvac_mode">>], set_hvac_mode |-> [required |-> <<"hvac_mode">>, optional |->
         <<>>], set_preset_mode |-> [required |-> <<"preset_mode">>, optional |-> <<>>],
         set_fan_mode |-> [required |-> <<"fan_mode">>, optional |-> <<>>], set_humidity
         |-> [required |-> <<"humidity">>, optional |-> <<>>], set_swing_mode |->
         [required |-> <<"swing_mode">>, optional |-> <<>>], set_swing_horizontal_mode |->
         [required |-> <<"swing_horizontal_mode">>, optional |-> <<>>]], error_message |->
         <<>>],
     lock |-> [type |-> TYPE_CONTROLLABLE, priority |-> PRIORITY_ESSENTIAL, services |->
         <<"lock", "unlock", "open">>, parameters |-> [lock |-> [required |-> <<>>,
         optional |-> <<"code">>], unlock |-> [required |-> <<>>, optional |->
         <<"code">>], open |-> [required |-> <<>>, optional |-> <<"code">>]],
         error_message |-> <<>>],
     scene |-> [type |-> TYPE_CONTROLLABLE, priority |-> PRIORITY_ESSENTIAL, services |->
         <<"turn_on", "reload", "apply", "create", "delete">>, parameters |-> [turn_on |->
         [required |-> <<>>, optional |-> <<"transition">>], apply |-> [required |->
         <<"entities">>, optional |-> <<"transition">>], create |-> [required |->
         <<"scene_id">>, optional |-> <<"entities", "snapshot_entities">>]], error_message
         |-> <<>>],
     script |-> [type |-> TYPE_CONTROLLABLE, priority |-> PRIORITY_ESSENTIAL, services |->
         <<"turn_on", "turn_off", "toggle", "reload">>, parameters |-> <<>>, error_message
         |-> <<>>],
     automation |-> [type |-> TYPE_CONTROLLABLE, priority |-> PRIORITY_ESSENTIAL, services
         |-> <<"trigger", "turn_on", "turn_off", "toggle", "reload">>, parameters |->
         [trigger |-> [required |-> <<>>, optional |-> <<"skip_condition">>], turn_off |->
         [required |-> <<>>, optional |-> <<"stop_actions">>]], error_message |-> <<>>],
     fan |-> [type |-> TYPE_CONTROLLABLE, priority |-> PRIORITY_COMMON, services |->
         <<"turn_on", "turn_off", "toggle", "set_percentage", "set_preset_mode",
         "oscillate", "set_direction", "increase_speed", "decrease_speed">>, parameters
         |-> [turn_on |-> [required |-> <<>>, optional |-> <<"percentage",
         "preset_mode">>], set_percentage |-> [required |-> <<"percentage">>, optional |->
         <<>>], set_preset_mode |-> [required |-> <<"preset_mode">>, optional |-> <<>>],
         oscillate |-> [required |-> <<"oscillating">>, optional |-> <<>>], set_direction
         |-> [required |-> <<"direction">>, optional |-> <<>>], increase_speed |->
         [required |-> <<>>, optional |-> <<"percentage_step">>], decrease_speed |->
         [required |-> <<>>, optional |-> <<"percentage_step">>]], error_message |-> <<>>],
     media_player |-> [type |-> TYPE_CONTROLLABLE, priority |-> PRIORITY_COMMON, services
         |-> <<"turn_on", "turn_off", "toggle", "volume_up", "volume_down", "volume_set",
         "volume_mute", "media_play", "media_pause", "media_stop", "media_play_pause",
         "media_next_track", "media_previous_track", "media_seek", "play_media",
         "select_source", "select_sound_mode", "clear_playlist", "shuffle_set",
         "repeat_set", "join", "unjoin", "browse_media", "search_media">>, parameters |->
         [volume_set |-> [required |-> <<"volume_level">>, optional |-> <<>>], volume_mute
         |-> [required |-> <<"is_volume_muted">>, optional |-> <<>>], media_seek |->
         [required |-> <<"seek_position">>, optional |-> <<>>], play_media |-> [required
         |-> <<"media">>, optional |-> <<"enqueue", "announce">>], select_source |->
         [required |-> <<"source">>, optional |-> <<>>], select_sound_mode |-> [required
         |-> <<>>, optional |-> <<"sound_mode">>], shuffle_set |-> [required |->
         <<"shuffle">>, optional |-> <<>>], repeat_set |-> [required |-> <<"repeat">>,
         optional |-> <<>>], join |-> [required |-> <<"group_members">>, optional |->
         <<>>], browse_media |-> [required |-> <<>>, optional |-> <<"media_content_type",
         "media_content_id">>], search_media |-> [required |-> <<"search_query">>,
         optional |-> <<"media_content_type", "media_content_id",
         "media_filter_classes">>]], error_message |-> <<>>],
     vacuum |-> [type |-> TYPE_CONTROLLABLE, priority |-> PRIORITY_COMMON, services |->
         <<"turn_on", "turn_off", "toggle", "start", "stop", "pause", "start_pause",
         "return_to_base", "clean_spot", "locate", "send_command", "set_fan_speed">>,
         parameters |-> [send_command |-> [required |-> <<"command">>, optional |->
         <<"params">>], set_fan_speed |-> [required |-> <<"fan_speed">>, optional |->
         <<>>]], error_message |-> <<>>],
     alarm_control_panel |-> [type |-> TYPE_CONTROLLABLE, priority |-> PRIORITY_COMMON,
         services |-> <<"alarm_disarm", "alarm_arm_home", "alarm_arm_away",
         "alarm_arm_night", "alarm_arm_vacation", "alarm_arm_custom_bypass",
         "alarm_trigger">>, parameters |-> [alarm_disarm |-> [required |-> <<>>, optional
         |-> <<"code">>], alarm_arm_home |-> [required |-> <<>>, optional |-> <<"code">>],
         alarm_arm_away |-> [required |-> <<>>, optional |-> <<"code">>], alarm_arm_night
         |-> [required |-> <<>>, optional |-> <<"code">>], alarm_arm_vacation |->
         [required |-> <<>>, optional |-> <<"code">>], alarm_arm_custom_bypass |->
         [required |-> <<>>, optional |-> <<"code">>], alarm_trigger |-> [required |->
         <<>>, optional |-> <<"code">>]], error_message |-> <<>>],
     camera |-> [type |-> TYPE_CONTROLLABLE, priority |-> PRIORITY_COMMON, services |->
         <<"turn_on", "turn_off", "enable_motion_detection", "disable_motion_detection",
         "snapshot", "record", "play_stream">>, parameters |-> [snapshot |-> [required |->
         <<"filename">>, optional |-> <<>>], record |-> [required |-> <<"filename">>,
         optional |-> <<"duration", "lookback">>], play_stream |-> [required |->
         <<"media_player">>, optional |-> <<"format">>]], error_message |-> <<>>],
     sensor |-> [type |-> TYPE_READ_ONLY, priority |-> PRIORITY_COMMON, services |-> <<>>,
         parameters |-> <<>>, error_message |->
         <<"Sensors are read-only. Use 'get_entity_details' to read sensor values.">>],
     binary_sensor |-> [type |-> TYPE_READ_ONLY, priority |-> PRIORITY_COMMON, services
         |-> <<>>, parameters |-> <<>>, error_message |->
         <<"Binary sensors are read-only. Use 'get_entity_details' to read sensor state.">>],
     device_tracker |-> [type |-> TYPE_CONTROLLABLE, priority |-> PRIORITY_COMMON,
         services |-> <<"see">>, parameters |-> [see |-> [required |-> <<>>, optional |->
         <<"mac", "dev_id", "host_name", "location_name", "gps", "gps_accuracy",
         "battery">>]], error_message |-> <<>>],
     input_boolean |-> [type |-> TYPE_CONTROLLABLE, priority |-> PRIORITY_STANDARD,
         services |-> <<"turn_on", "turn_off", "toggle", "reload">>, parameters |-> <<>>,
         error_message |-> <<>>],
     input_number |-> [type |-> TYPE_CONTROLLABLE, priority |-> PRIORITY_STANDARD,
         services |-> <<"set_value", "increment", "decrement", "reload">>, parameters |->
         [set_value |-> [required |-> <<"value">>, optional |-> <<>>]], error_message |->
         <<>>],
     input_text |-> [type |-> TYPE_CONTROLLABLE, priority |-> PRIORITY_STANDARD, services
         |-> <<"set_value", "reload">>, parameters |-> [set_value |-> [required |->
         <<"value">>, optional |-> <<>>]], error_message |-> <<>>],
     input_select |-> [type |-> TYPE_CONTROLLABLE, priority |-> PRIORITY_STANDARD,
         services |-> <<"select_option", "select_next", "select_previous", "select_first",
         "select_last", "set_options", "reload">>, parameters |-> [select_option |->
         [required |-> <<"option">>, optional |-> <<>>], select_next |-> [required |->
         <<>>, optional |-> <<"cycle">>], select_previous |-> [required |-> <<>>, optional
         |-> <<"cycle">>], set_options |-> [required |-> <<"options">>, optional |->
         <<>>]], error_message |-> <<>>],
     input_datetime |-> [type |-> TYPE_CONTROLLABLE, priority |-> PRIORITY_STANDARD,
         services |-> <<"set_datetime", "reload">>, parameters |-> [set_datetime |->
         [required |-> <<>>, optional |-> <<"date", "time", "datetime", "timestamp">>]],
         error_message |-> <<>>],
     input_button |-> [type |-> TYPE_CONTROLLABLE, priority |-> PRIORITY_STANDARD,
         services |-> <<"press", "reload">>, parameters |-> <<>>, error_message |-> <<>>],
     timer |-> [type |-> TYPE_CONTROLLABLE, priority |-> PRIORITY_STANDARD, services |->
         <<"start", "pause", "cancel", "finish", "change", "reload">>, parameters |->
         [start |-> [required |-> <<>>, optional |-> <<"duration">>], change |-> [required
         |-> <<"duration">>, optional |-> <<>>]], error_message |-> <<>>],
     counter |-> [type |-> TYPE_CONTROLLABLE, priority |-> PRIORITY_STANDARD, services |->
         <<"increment", "decrement", "reset", "set_value">>, parameters |-> [set_value |->
         [required |-> <<"value">>, optional |-> <<>>]], error_message |-> <<>>],
     person |-> [type |-> TYPE_CONTROLLABLE, priority |-> PRIORITY_STANDARD, services |->
         <<"reload">>, parameters |-> <<>>, error_message |-> <<>>],
     zone |-> [type |-> TYPE_CONTROLLABLE, priority |-> PRIORITY_STANDARD, services |->
         <<"reload">>, parameters |-> <<>>, error_message |-> <<>>],
     group |-> [type |-> TYPE_CONTROLLABLE, priority |-> PRIORITY_STANDARD, services |->
         <<"reload", "set", "remove">>, parameters |-> [set |-> [required |->
         <<"object_id">>, optional |-> <<"name", "icon", "entities", "add_entities",
         "remove_entities", "all">>], remove |-> [required |-> <<"object_id">>, optional
         |-> <<>>]], error_message |-> <<>>],
     select |-> [type |-> TYPE_CONTROLLABLE, priority |-> PRIORITY_EXTENDED, services |->
         <<"select_option", "select_first", "select_last", "select_next",
         "select_previous">>, parameters |-> [select_option |-> [required |->
         <<"option">>, optional |-> <<>>], select_next |-> [required |-> <<>>, optional
         |-> <<"cycle">>], select_previous |-> [required |-> <<>>, optional |->
         <<"cycle">>]], error_message |-> <<>>],
     number |-> [type |-> TYPE_CONTROLLABLE, priority |-> PRIORITY_EXTENDED, services |->
         <<"set_value">>, parameters |-> [set_value |-> [required |-> <<"value">>,
         optional |-> <<>>]], error_message |-> <<>>],
     button |-> [type |-> TYPE_CONTROLLABLE, priority |-> PRIORITY_EXTENDED, services |->
         <<"press">>, parameters |-> <<>>, error_message |-> <<>>],
     update |-> [type |-> TYPE_CONTROLLABLE, priority |-> PRIORITY_EXTENDED, services |->
         <<"install", "skip", "clear_skipped">>, parameters |-> [install |-> [required |->
         <<>>, optional |-> <<"version", "backup">>]], error_message |-> <<>>],
     text |-> [type |-> TYPE_CONTROLLABLE, priority |-> PRIORITY_EXTENDED, services |->
         <<"set_value">>, parameters |-> [set_value |-> [required |-> <<"value">>,
         optional |-> <<>>]], error_message |-> <<>>],
     date |-> [type |-> TYPE_CONTROLLABLE, priority |-> PRIORITY_EXTENDED, services |->
         <<"set_value">>, parameters |-> [set_value |-> [required |-> <<"date">>, optional
         |-> <<>>]], error_message |-> <<>>],
     time |-> [type |-> TYPE_CONTROLLABLE, priority |-> PRIORITY_EXTENDED, services |->
         <<"set_value">>, parameters |-> [set_value |-> [required |-> <<"time">>, optional
         |-> <<>>]], error_message |-> <<>>],
     datetime |-> [type |-> TYPE_CONTROLLABLE, priority |-> PRIORITY_EXTENDED, services
         |-> <<"set_value">>, parameters |-> [set_value |-> [required |-> <<"datetime">>,
         optional |-> <<>>]], error_message |-> <<>>],
     water_heater |-> [type |-> TYPE_CONTROLLABLE, priority |-> PRIORITY_SPECIALIZED,
         services |-> <<"set_temperature", "set_operation_mode", "set_away_mode",
         "turn_on", "turn_off">>, parameters |-> [set_temperature |-> [required |->
         <<"temperature">>, optional |-> <<"operation_mode">>], set_operation_mode |->
         [required |-> <<"operation_mode">>, optional |-> <<>>], set_away_mode |->
         [required |-> <<"away_mode">>, optional |-> <<>>]], error_message |-> <<>>],
     humidifier |-> [type |-> TYPE_CONTROLLABLE, priority |-> PRIORITY_SPECIALIZED,
         services |-> <<"turn_on", "turn_off", "toggle", "set_mode", "set_humidity">>,
         parameters |-> [set_mode |-> [required |-> <<"mode">>, optional |-> <<>>],
         set_humidity |-> [required |-> <<"humidity">>, optional |-> <<>>]], error_message
         |-> <<>>],
     siren |-> [type |-> TYPE_CONTROLLABLE, priority |-> PRIORITY_SPECIALIZED, services
         |-> <<"turn_on", "turn_off", "toggle">>, parameters |-> [turn_on |-> [required
         |-> <<>>, optional |-> <<"tone", "duration", "volume_level">>]], error_message
         |-> <<>>],
     valve |-> [type |-> TYPE_CONTROLLABLE, priority |-> PRIORITY_SPECIALIZED, services
         |-> <<"open_valve", "close_valve", "set_valve_position", "stop_valve",
         "toggle">>, parameters |-> [set_valve_position |-> [required |-> <<"position">>,
         optional |-> <<>>]], error_message |-> <<>>],
     lawn_mower |-> [type |-> TYPE_CONTROLLABLE, priority |-> PRIORITY_SPECIALIZED,
         services |-> <<"start_mowing", "pause", "dock">>, parameters |-> <<>>,
         error_message |-> <<>>],
     weather |-> [type |-> TYPE_READ_ONLY, priority |-> PRIORITY_SPECIALIZED, services |->
         <<"get_forecast", "get_forecasts">>, parameters |-> [get_forecast |-> [required
         |-> <<"type">>, optional |-> <<>>], get_forecasts |-> [required |-> <<"type">>,
         optional |-> <<>>]], error_message |-> <<>>],
     sun |-> [type |-> TYPE_READ_ONLY, priority |-> PRIORITY_SPECIALIZED, services |->
         <<>>, parameters |-> <<>>, error_message |->
         <<"Sun is a system entity providing sunrise/sunset times. Use 'get_entity_details' to read values.">>],
     notify |-> [type |-> TYPE_SERVICE_ONLY, priority |-> PRIORITY_SPECIALIZED, services
         |-> <<"notify", "send_message", "persistent_notification">>, parameters |->
         [notify |-> [required |-> <<"message">>, optional |-> <<"title", "target",
         "data">>], send_message |-> [required |-> <<"message">>, optional |->
         <<"title">>], persistent_notification |-> [required |-> <<"message">>, optional
         |-> <<"title", "data">>]], error_message |-> <<>>],
     tts |-> [type |-> TYPE_SERVICE_ONLY, priority |-> PRIORITY_SPECIALIZED, services |->
         <<"speak", "say", "clear_cache">>, parameters |-> [speak |-> [required |->
         <<"media_player_entity_id", "message">>, optional |-> <<"cache", "language",
         "options">>], say |-> [required |-> <<"entity_id", "message">>, optional |->
         <<"cache", "language", "options">>]], error_message |-> <<>>],
     persistent_notification |-> [type |-> TYPE_SERVICE_ONLY, priority |->
         PRIORITY_SPECIALIZED, services |-> <<"create", "dismiss", "mark_read">>,
         parameters |-> [create |-> [required |-> <<"message">>, optional |-> <<"title",
         "notification_id">>], dismiss |-> [required |-> <<"notification_id">>, optional
         |-> <<>>], mark_read |-> [required |-> <<"notification_id">>, optional |->
         <<>>]], error_message |-> <<>>]]

ACTION_ALIASES ==
    [activate |-> "turn_on", deactivate |-> "turn_off", enable |-> "turn_on", disable
        |-> "turn_off", start |-> "turn_on", stop |-> "turn_off", secure |-> "lock",
        unsecure |-> "unlock", open |-> "open_cover", close |-> "close_cover", raise |->
        "open_cover", lower |-> "close_cover", play |-> "media_play", pause |->
        "media_pause", next |-> "media_next_track", previous |-> "media_previous_track",
        mute |-> "volume_mute", heat |-> "set_hvac_mode", cool |-> "set_hvac_mode",
        clean |-> "start", dock |-> "return_to_base", home |-> "return_to_base"]


\* x in seq, for a Python list
InList(x, seq) == \E i \in 1..Len(seq) : seq[i] = x

\* a in b, for Python strings
IsSubstring(a, b) ==
    \E i \in 1..(Len(b) - Len(a) + 1) : SubSeq(b, i, i + Len(a) - 1) = a

\* seq[:n]
Take(seq, n) == SubSeq(seq, 1, Min(n, Len(seq)))

\* sep.join(seq)
RECURSIVE Join(_, _)
Join(seq, sep) ==
    IF seq = <<>> THEN ""
    ELSE IF Len(seq) = 1 THEN seq[1]
    ELSE seq[1] \o sep \o Join(Tail(seq), sep)

\* a lookup that hands out the descriptor with an empty services list
GetDomainInfoWithoutServices(domain) ==
    IF domain \in DOMAIN DOMAIN_REGISTRY
    THEN <<[DOMAIN_REGISTRY[domain] EXCEPT !.services = <<>>]>> ELSE <<>>

\* DOMAIN_REGISTRY.get(domain): <<>> for None
get_domain_info(domain) ==
    IF domain \in DOMAIN DOMAIN_REGISTRY THEN <<DOMAIN_REGISTRY[domain]>> ELSE <<>>

\* map_action_to_service that does not look the action up in ACTION_ALIASES
MapActionWithoutCommonAliases(domain, action) ==
    LET domain_info == get_domain_info(domain)
    IN  IF domain_info # <<>> /\ InList(action, domain_info[1].services) THEN action
        ELSE IF domain = "cover" /\ action \in {"raise", "lift"} THEN "open_cover"
        ELSE IF domain = "cover" /\ action \in {"lower", "drop"} THEN "close_cover"
        ELSE IF domain = "lock" /\ action = "secure" THEN "lock"
        ELSE IF domain = "lock" /\ action = "unsecure" THEN "unlock"
        ELSE IF domain = "vacuum" /\ action = "clean" THEN "start"
        ELSE IF domain = "vacuum" /\ action \in {"dock", "home"} THEN "return_to_base"
        ELSE action

\* map_action_to_service that looks the action up in ACTION_ALIASES before it
\* looks at the domain's services
MapActionAliasesFirst(domain, action) ==
    LET domain_info == get_domain_info(domain)
    IN  IF action \in DOMAIN ACTION_ALIASES THEN ACTION_ALIASES[action]
        ELSE IF domain_info # <<>> /\ InList(action, domain_info[1].services) THEN action
        ELSE IF domain = "cover" /\ action \in {"raise", "lift"} THEN "open_cover"
        ELSE IF domain = "cover" /\ action \in {"lower", "drop"} THEN "close_cover"
        ELSE action

\* map_action_to_service without the domain-specific mappings
MapActionWithoutDomainMappings(domain, action) ==
    LET domain_info == get_domain_info(domain)
    IN  IF domain_info # <<>> /\ InList(action, domain_info[1].services) THEN action
        ELSE IF action \in DOMAIN ACTION_ALIASES THEN ACTION_ALIASES[action]
        ELSE action

map_action_to_service(domain, action) ==
    LET domain_info == get_domain_info(domain)
    IN  IF domain_info # <<>> /\ InList(action, domain_info[1].services) THEN action
        ELSE IF action \in DOMAIN ACTION_ALIASES THEN ACTION_ALIASES[action]
        ELSE IF domain = "cover" /\ action \in {"raise", "lift"} THEN "open_cover"
        ELSE IF domain = "cover" /\ action \in {"lower", "drop"} THEN "close_cover"
        ELSE IF domain = "lock" /\ action = "secure" THEN "lock"
        ELSE IF domain = "lock" /\ action = "unsecure" THEN "unlock"
        ELSE IF domain = "vacuum" /\ action = "clean" THEN "start"
        ELSE IF domain = "vacuum" /\ action \in {"dock", "home"} THEN "return_to_base"
        ELSE action

\* the list "similar" that tests only whether a registered name contains the input
SimilarDomainsContainingOnly(domain) ==
    LET Close(d) == IsSubstring(domain, d)
    IN  SelectSeq(DOMAIN_REGISTRY_keys, Close)

\* similar = [d for d in DOMAIN_REGISTRY.keys() if domain in d or d in domain]
SimilarDomains(domain) ==
    LET Close(d) == IsSubstring(domain, d) \/ IsSubstring(d, domain)
    IN  SelectSeq(DOMAIN_REGISTRY_keys, Close)

\* what validate_domain_action returns for a domain the registry does not hold
DomainNotSupported(domain) ==
    LET similar == SimilarDomains(domain)
    IN  IF similar # <<>>
        THEN <<FALSE, "Domain '" \o domain \o "' not supported. Did you mean: "
                        \o Join(Take(similar, 3), ", ") \o "?">>
        ELSE <<FALSE, "Domain '" \o domain
                        \o "' not supported. Use 'list_domains' to see available domains.">>

\* domain_info.get("error_message", <the generic message>)
ReadOnlyMessage(domain, domain_info) ==
    IF domain_info.error_message # <<>> THEN domain_info.error_message[1]
    ELSE "Domain '" \o domain \o "' is read-only. Use 'get_entity_details' to read values."

\* validate_domain_action from "Map the action to a service name" on, testing
\* the action instead of the service it is mapped to
CheckUnmappedAction(domain, action, domain_info) ==
    IF InList(action, domain_info.services) THEN <<TRUE, action>>
    ELSE IF domain_info.services # <<>>
    THEN <<FALSE, "Action '" \o action \o "' not valid for " \o domain
                    \o ". Available: " \o Join(Take(domain_info.services, 5), ", ")>>
    ELSE <<FALSE, "Domain '" \o domain \o "' has no available services">>

\* validate_domain_action from "Map the action to a service name" on
CheckMappedAction(domain, action, domain_info) ==
    LET service == map_action_to_service(domain, action)
    IN  IF InList(service, domain_info.services) THEN <<TRUE, service>>
        ELSE IF domain_info.services # <<>>
        THEN <<FALSE, "Action '" \o action \o "' not valid for " \o domain
                        \o ". Available: " \o Join(Take(domain_info.services, 5), ", ")>>
        ELSE <<FALSE, "Domain '" \o domain \o "' has no available services">>

\* validate_domain_action that tests for a read-only domain only once the
\* action has failed to validate
ValidateReadOnlyLast(domain, action) ==
    LET domain_info == get_domain_info(domain)
    IN  IF domain_info = <<>> THEN DomainNotSupported(domain)
        ELSE IF CheckMappedAction(domain, action, domain_info[1])[1]
        THEN CheckMappedAction(domain, action, domain_info[1])
        ELSE IF domain_info[1].type = TYPE_READ_ONLY
        THEN <<FALSE, ReadOnlyMessage(domain, domain_info[1])>>
        ELSE CheckMappedAction(domain, action, domain_info[1])

\* validate_domain_action(domain, action): (is_valid, service name or message)
validate_domain_action(domain, action) ==
    LET domain_info == get_domain_info(domain)
    IN  IF domain_info = <<>> THEN DomainNotSupported(domain)
        ELSE IF domain_info[1].type = TYPE_READ_ONLY
        THEN <<FALSE, ReadOnlyMessage(domain, domain_info[1])>>
        ELSE CheckMappedAction(domain, action, domain_info[1])

NoParameters == [required |-> <<>>, optional |-> <<>>]

get_service_parameters(domain, service) ==
    LET domain_info == get_domain_info(domain)
    IN  IF domain_info = <<>> THEN NoParameters
        ELSE IF service \in DOMAIN domain_info[1].parameters
        THEN domain_info[1].parameters[service]
        ELSE NoParameters

\* validate_service_parameters that wants the optional parameters too
ValidateParametersWantsOptional(domain, service, provided_params) ==
    LET params_info == get_service_parameters(domain, service)
        Missing(p) == p \notin provided_params
        missing == SelectSeq(params_info.required \o params_info.optional, Missing)
    IN  IF missing # <<>>
        THEN <<FALSE, "Missing required parameters for " \o domain \o "." \o service
                        \o ": " \o Join(missing, ", ")>>
        ELSE <<TRUE, "Parameters valid">>

\* validate_service_parameters(domain, service, provided_params), provided_params
\* being the set of the dictionary's keys
validate_service_parameters(domain, service, provided_params) ==
    LET params_info == get_service_parameters(domain, service)
        Missing(p) == p \notin provided_params
        missing == SelectSeq(params_info.required, Missing)
    IN  IF missing # <<>>
        THEN <<FALSE, "Missing required parameters for " \o domain \o "." \o service
                        \o ": " \o Join(missing, ", ")>>
        ELSE <<TRUE, "Parameters valid">>

\* ---- calls of the registry functions ----

\* domain arguments: every registered domain, and names the registry lacks
UnknownDomains == {"", "lights", "sens", "input", "light_switch", "not_a_domain"}
DomainInputs == DOMAIN DOMAIN_REGISTRY \cup UnknownDomains

\* action and service arguments: every service of the table, every alias, and
\* names that are neither
AllServices ==
    UNION {{DOMAIN_REGISTRY[d].services[i] : i \in 1..Len(DOMAIN_REGISTRY[d].services)} :
              d \in DOMAIN DOMAIN_REGISTRY}
ActionInputs ==
    AllServices \cup DOMAIN ACTION_ALIASES \cup {"lift", "drop", "bogus", ""}

\* names a caller may pass for (domain, service): the required ones, the first
\* optional one, and one the table does not know
ParameterInputs(domain, service) ==
    LET params_info == get_service_parameters(domain, service)
    IN  {params_info.required[i] : i \in 1..Len(params_info.required)}
            \cup {params_info.optional[i] : i \in 1..Min(1, Len(params_info.optional))}
            \cup {"unknown_parameter"}

NoRegistryCall == [fn |-> "init", domain |-> "", action |-> "", provided |-> {},
                   result |-> <<>>]

\* the registry functions not called
RIdle == reg = NoRegistryCall

Init == HInit /\ TInit /\ CIdle /\ RIdle

Next ==
    \/ Tick
    \/ \E c \in ConvIds : AddTurn(c)
    \/ \E c \in ConvIds : GetHistory(c)
    \/ \E c \in ConvIds, k \in 0..MaxContextArg : GetRecentContext(c, k)
    \/ \E c \in ConvIds : ClearConversation(c)
    \/ ClearAll
    \/ HistoryGetStats

Spec == Init /\ [][Next]_vars

\* ---- callers that edit the lists get_history returns ----

CopyNext ==
    \/ Tick
    \/ \E c \in ConvIds : AddTurn(c)
    \/ \E c \in ConvIds : GetHistory(c)
    \/ \E edit \in ListEdits : EditReturnedList(edit)

CopySpec == Init /\ [][CopyNext]_vars

\* ---- callers that change the turn records get_history returns ----

TurnNext ==
    \/ Tick
    \/ \E c \in ConvIds : AddTurn(c)
    \/ \E c \in ConvIds : GetHistory(c)
    \/ \E c \in ConvIds, k \in 0..MaxContextArg : GetRecentContext(c, k)
    \/ \E i \in 1..MaxAdds : EditReturnedTurn(i)

TurnSpec == Init /\ [][TurnNext]_vars

TelemetryInit == TInit /\ HIdle /\ CIdle /\ RIdle

TelemetryNext ==
    \/ NextDay
    \/ DoRecordRequest
    \/ \E duration_ms \in Durations : DoRecordFastPathHit(duration_ms)
    \/ DoRecordFastPathMiss
    \/ \E success \in BOOLEAN : DoRecordPreResolveAttempt(success)
    \/ \E duration_ms \in Durations, tokens \in Tokens : DoRecordLlmCall(duration_ms, tokens)
    \/ DoRecordLlmError
    \/ \E status \in Statuses : DoSetStatus(status)
    \/ DoGetStats
    \/ (handles = <<>> /\ AddListener("f"))

TelemetrySpec == TelemetryInit /\ [][TelemetryNext]_vars

ListenerInit == TInit /\ HIdle /\ CIdle /\ RIdle

ListenerNext ==
    \/ \E cb \in Callbacks : AddListener(cb)
    \/ \E h \in 1..Len(handles) : Unsubscribe(h)
    \/ (calls < MaxListenerCalls /\ DoRecordRequest)
    \/ \E duration_ms \in Durations :
          (calls < MaxListenerCalls /\ DoRecordFastPathHit(duration_ms))
    \/ (calls < MaxListenerCalls /\ DoRecordFastPathMiss)
    \/ \E success \in BOOLEAN :
          (calls < MaxListenerCalls /\ DoRecordPreResolveAttempt(success))
    \/ \E duration_ms \in Durations, tokens \in Tokens :
          (calls < MaxListenerCalls /\ DoRecordLlmCall(duration_ms, tokens))
    \/ (calls < MaxListenerCalls /\ DoRecordLlmError)
    \/ \E status \in Statuses : (calls < MaxListenerCalls /\ DoSetStatus(status))

ListenerSpec == ListenerInit /\ [][ListenerNext]_vars

\* ---- listeners that unsubscribe while a notification is in progress ----

UnsubscribingInit == TInit /\ HIdle /\ CIdle /\ RIdle

\* each callback is registered at most once at a time
UnsubscribingNext ==
    \/ \E cb \in UnsubscribingCallbacks \cup {"f"} :
           (~InList(cb, listeners) /\ AddListener(cb))
    \/ DoRecordRequest
    \/ DoRecordFastPathMiss

UnsubscribingSpec == UnsubscribingInit /\ [][UnsubscribingNext]_vars

(***************************************************************************)
(* Claims about ConversationHistory, checked under Spec.                   *)
(***************************************************************************)
TouchOps == {"add_turn", "get_history", "get_recent_context"}

\* whether every turn of seq is still within max_history_age at time t
AllFresh(seq, t) ==
    \A i \in 1..Len(seq) : seq[i].timestamp > t - max_history_age

\* ---- the rates over a long run of fast-path and pre-resolve calls ----

MaxRateCalls == 80
MaxAttempts == 2

RateInit == TInit /\ HIdle /\ CIdle /\ RIdle

RateHit(duration_ms) ==
    /\ CalledWithin(MaxRateCalls, "record_fast_path_hit", <<duration_ms>>,
                    RecordFastPathHit(stats, listeners, today, duration_ms))
    /\ UNCHANGED <<last_record_day, cvars>>

RateMiss ==
    /\ CalledWithin(MaxRateCalls, "record_fast_path_miss", <<>>,
                    RecordFastPathMiss(stats, listeners, today))
    /\ UNCHANGED <<last_record_day, cvars>>

RateAttempt(success) ==
    /\ stats.pre_resolve_attempts < MaxAttempts
    /\ CalledWithin(MaxRateCalls, "record_pre_resolve_attempt", <<success>>,
                    RecordPreResolveAttempt(stats, listeners, today, success))
    /\ UNCHANGED <<last_record_day, cvars>>

RateNext ==
    \/ \E duration_ms \in {10} : RateHit(duration_ms)
    \/ RateMiss
    \/ \E success \in BOOLEAN : RateAttempt(success)

RateSpec == RateInit /\ [][RateNext]_vars

\* ---- runs that fill one response-time window past its capacity ----
MaxWindowCalls == 102

WindowInit == TInit /\ HIdle /\ CIdle /\ RIdle

\* the sample occurs in the window
Holds(q, x) == \E i \in 1..Len(q) : q[i] = x

WindowHit(duration_ms) ==
    /\ CalledWithin(MaxWindowCalls, "record_fast_path_hit", <<duration_ms>>,
                    RecordFastPathHit(stats, listeners, today, duration_ms))
    /\ UNCHANGED <<last_record_day, cvars>>

WindowLlm(duration_ms) ==
    /\ CalledWithin(MaxWindowCalls, "record_llm_call", <<duration_ms, 0>>,
                    RecordLlmCall(stats, listeners, today, duration_ms, 0))
    /\ last_record_day' = today
    /\ UNCHANGED cvars

\* one window is filled per run, with at most one long sample in it at a time
WindowNext ==
    \/ \E duration_ms \in Durations :
           /\ stats.llm_times = <<>>
           /\ duration_ms = 20 => ~Holds(stats.fast_path_times, 20)
           /\ WindowHit(duration_ms)
    \/ \E duration_ms \in Durations :
           /\ stats.fast_path_times = <<>>
           /\ duration_ms = 20 => ~Holds(stats.llm_times, 20)
           /\ WindowLlm(duration_ms)
    \/ (handles = <<>> /\ AddListener("f"))

WindowSpec == WindowInit /\ [][WindowNext]_vars

TimingInit ==
    /\ TInit /\ HIdle /\ RIdle
    /\ perf = 0
    /\ \E operation_type \in OperationTypes, tokens_callback \in TokensCallbacks :
          timing = NewTiming(operation_type, tokens_callback)

TimingNext ==
    \/ PerfTick
    \/ DoEnter
    \/ DoMarkFailed
    \/ \E exc \in BOOLEAN : DoExit(exc)
    \/ (handles = <<>> /\ AddListener("f"))

TimingSpec == TimingInit /\ [][TimingNext]_vars

\* the arguments of the registry functions are drawn here; the actions apply
\* the functions to them
RegistryInit ==
    /\ HIdle /\ TInit /\ CIdle
    /\ \E domain \in DomainInputs, action \in ActionInputs :
          \E provided_params \in SUBSET ParameterInputs(domain, action) :
              reg = [fn |-> "init", domain |-> domain, action |-> action,
                     provided |-> provided_params, result |-> <<>>]

DoMapActionToService ==
    /\ reg' = [reg EXCEPT !.fn = "map_action_to_service",
                          !.result = <<map_action_to_service(reg.domain, reg.action)>>]
    /\ UNCHANGED <<hvars, tvars, cvars>>

DoValidateDomainAction ==
    /\ reg' = [reg EXCEPT !.fn = "validate_domain_action",
                          !.result = validate_domain_action(reg.domain, reg.action)]
    /\ UNCHANGED <<hvars, tvars, cvars>>

DoValidateServiceParameters ==
    /\ reg' = [reg EXCEPT !.fn = "validate_service_parameters",
                          !.result = validate_service_parameters(reg.domain, reg.action,
                                                                 reg.provided)]
    /\ UNCHANGED <<hvars, tvars, cvars>>

RegistryNext ==
    \/ DoMapActionToService
    \/ DoValidateDomainAction
    \/ DoValidateServiceParameters

RegistrySpec == RegistryInit /\ [][RegistryNext]_vars

\* C1: in every reachable state, every conversation's retained turn sequence
\* has length <= max_turns_per_conversation, for every configured limit >= 0.
C1_LengthBounded ==
    \A c \in DOMAIN conversations : Len(conversations[c]) <= max_turns

\* C2: get_history(c) never fails: it returns a sequence in every state, the
\* empty one for an unknown id and for an id whose turns have all expired.
C2_GetHistoryNeverFails ==
    hres.op = "get_history" =>
        /\ hres.raised = ""
        /\ (hres.conv \notin DOMAIN conversations => hres.ret = <<>>)

\* C3: after a touch (add_turn, get_history, get_recent_context) of c at time
\* t, no turn of c older than t - max_history_age is retained in c's stored
\* sequence, and none is returned by get_history(c).
C3_NoExpiredAfterTouch ==
    hres.op \in TouchOps =>
        LET cutoff == hres.t - max_history_age
        IN  /\ hres.conv \in DOMAIN conversations =>
                 \A i \in 1..Len(conversations[hres.conv]) :
                     ~(conversations[hres.conv][i].timestamp < cutoff)
            /\ \A i \in 1..Len(hres.ret) : ~(hres.ret[i].timestamp < cutoff)

\* C3 witness: get_history returned turns of a conversation after an older
\* turn of it, added earlier, had passed max_history_age.
C3_Witness ==
    /\ hres.op = "get_history"
    /\ hres.ret # <<>>
    /\ \E i \in 1..Len(added[hres.conv]) :
          added[hres.conv][i].timestamp < hres.t - max_history_age

\* C4: after n add_turn calls on one conversation with no turn expired by
\* age, get_history returns exactly the last min(n, max_turns) turns added,
\* oldest first.
C4_Returned(c) ==
    LET n == Len(added[c])
        m == Min(n, max_turns)
    IN  /\ hres'.raised = ""
        /\ hres'.ret = SubSeq(added[c], n - m + 1, n)

C4_LastTurnsReturned ==
    [][\A c \in ConvIds :
          (GetHistory(c) /\ AllFresh(added[c], now)) => C4_Returned(c)]_vars

\* C5: no empty entries persist: every id present in the mapping has at
\* least one turn, so get_stats().total_conversations counts exactly the
\* conversations that hold a turn.
C5_NoEmptyEntries ==
    /\ \A c \in DOMAIN conversations : Len(conversations[c]) >= 1
    /\ total_conversations(conversations) =
           Cardinality({c \in DOMAIN conversations : conversations[c] # <<>>})
    /\ hres.op = "get_stats" =>
           hres.ret[1] = Cardinality({c \in ConvIds :
               c \in DOMAIN conversations /\ conversations[c] # <<>>})

\* C5 witness: eviction reduced a conversation that had turns to zero turns,
\* and its id is gone from the mapping.
C5_Witness ==
    /\ hres.op \in {"get_history", "get_recent_context"}
    /\ hres.raised = "KeyError"
    /\ hres.conv \notin DOMAIN conversations
    /\ total_conversations(conversations) = 0

(***************************************************************************)
(* Claims about the listeners of MCPAssistStatistics, checked under        *)
(* ListenerSpec.                                                           *)
(***************************************************************************)
NotifyingOps == {"record_request", "record_fast_path_hit", "record_fast_path_miss",
                 "record_pre_resolve_attempt", "record_llm_call", "record_llm_error",
                 "set_status"}

\* whether the dictionary a listener read shows the mutation of the call
MutationVisible(op, arg, day, seen) ==
    CASE op = "record_request" ->
            seen.requests_today >= 1 /\ seen.last_request_time = <<day>>
      [] op = "record_fast_path_hit" ->
            seen.fast_path_hits >= 1 /\ seen.fast_path_last_response_time = 10 * arg[1]
      [] op = "record_fast_path_miss" -> seen.fast_path_misses >= 1
      [] op = "record_pre_resolve_attempt" ->
            seen.pre_resolve_attempts >= 1 /\ (arg[1] => seen.pre_resolve_hits >= 1)
      [] op = "record_llm_call" ->
            /\ seen.llm_calls_total >= 1 /\ seen.llm_calls_today >= 1
            /\ seen.llm_last_response_time = 10 * arg[1]
            /\ seen.tokens_used_today >= arg[2]
      [] op = "record_llm_error" -> seen.llm_errors >= 1
      [] op = "set_status" -> seen.status = arg[1]

C7_RaisingListenerIsolated ==
    tres.op \in NotifyingOps =>
        /\ tres.raised = ""
        /\ \A i \in 1..Len(tres.registered) :
              tres.registered[i] = "g" =>
                  \A j \in i..Len(tres.registered) :
                      /\ j <= Len(tres.log)
                      /\ tres.log[j].cb = tres.registered[j]
        /\ listeners = tres.registered

\* C7 witness: on the second mutation the raising listener, registered
\* first, was invoked again and the listener after it was invoked too.
C7_Witness ==
    /\ tres.op \in NotifyingOps
    /\ calls = 2
    /\ tres.registered = <<"g", "f">>
    /\ Len(tres.log) = 2
    /\ tres.log[1].raised
    /\ ~tres.log[2].raised

\* C8: the closure returned by add_listener is idempotent: a second call of
\* it, right after the first, leaves the listener list as the first call
\* left it, also when the same callback is registered more than once.
C8_UnsubscribeIdempotent ==
    [][\A h \in 1..Len(handles) :
          (/\ tres.op = "remove_listener"
           /\ tres.arg = <<h>>
           /\ Unsubscribe(h)) => listeners' = listeners]_vars

(***************************************************************************)
(* Claims about the counters of MCPAssistStatistics, checked under         *)
(* TelemetrySpec.                                                          *)
(***************************************************************************)
\* C9: recording an LLM call on a day later than current_date leaves
\* llm_calls_today and tokens_today counting that call alone, while
\* llm_calls and tokens_used go on accumulating.
C9_RolloverOnLlmCall ==
    [][\A duration_ms \in Durations, tokens \in Tokens :
          (DoRecordLlmCall(duration_ms, tokens) /\ today > stats.current_date) =>
              /\ stats'.llm_calls_today = 1
              /\ stats'.tokens_today = tokens
              /\ stats'.llm_calls = stats.llm_calls + 1
              /\ stats'.tokens_used = stats.tokens_used + tokens
              /\ stats'.current_date = today]_vars

\* C9 witness: an LLM call was recorded on a day later than current_date,
\* after LLM calls and tokens of an earlier day.
C9_Witness ==
    /\ tres.op = "record_llm_call"
    /\ tres.date_before < tres.day
    /\ stats.llm_calls >= 2
    /\ stats.llm_calls_today = 1
    /\ stats.tokens_used > stats.tokens_today
    /\ stats.tokens_today > 0

\* C10: get_stats called on a day other than the day of the latest
\* record_request/record_llm_call returns 0 for requests_today,
\* llm_calls_today and tokens_used_today.
C10_NoStaleDailyFigures ==
    (tres.op = "get_stats" /\ last_record_day # tres.day) =>
        /\ tres.ret[1].requests_today = 0
        /\ tres.ret[1].llm_calls_today = 0
        /\ tres.ret[1].tokens_used_today = 0

\* C10 witness: get_stats was the first call after the date changed, with
\* requests, LLM calls and tokens recorded the day before.
C10_Witness ==
    /\ tres.op = "get_stats"
    /\ last_record_day >= 0
    /\ last_record_day < tres.day
    /\ tres.date_before < tres.day
    /\ stats.llm_calls > 0
    /\ stats.tokens_used > 0
    /\ stats.last_request_time # <<>>

\* C11: get_stats called again with nothing recorded and no status set since
\* the last get_stats returns the same dictionary.
C11_SameStatsTwice ==
    [][(DoGetStats /\ last_snapshot # <<>>) =>
          tres'.ret[1] = last_snapshot[1].ret]_vars

\* C11 as amended: the same, when the two calls are made on the same day.
C11_SameStatsTwiceSameDay ==
    [][(DoGetStats /\ last_snapshot # <<>> /\ last_snapshot[1].day = today) =>
          tres'.ret[1] = last_snapshot[1].ret]_vars

\* C11 witness: get_stats was called twice in a row on one day, after
\* requests had been recorded that day.
C11_Witness ==
    /\ tres.op = "get_stats"
    /\ calls >= 3
    /\ last_snapshot # <<>>
    /\ tres.date_before = tres.day
    /\ last_record_day = tres.day
    /\ tres.ret[1].requests_today >= 1

\* position of the last __enter__ in the calls made on the helper, 0 if none
LastEnter(trail) ==
    LET at == {i \in 1..Len(trail) : trail[i] = "enter"}
    IN  IF at = {} THEN 0 ELSE CHOOSE i \in at : \A j \in at : j <= i

\* the helper was acquired, and since then mark_failed was called (once or
\* more) and nothing else
FailedBeforeRelease(trail) ==
    /\ LastEnter(trail) > 0
    /\ LastEnter(trail) < Len(trail)
    /\ \A j \in (LastEnter(trail) + 1)..Len(trail) : trail[j] = "mark_failed"

\* C12: a release that follows acquisition and then mark_failed records
\* nothing: the counters, rolling windows, last values and every other field of
\* the statistics object stay as they were, and no listener is called.
C12_MarkFailedSuppressesRecording ==
    [][\A exc \in BOOLEAN :
          (DoExit(exc) /\ FailedBeforeRelease(timing.trail)) =>
              UNCHANGED <<stats, listeners, tres, calls, last_snapshot>>]_vars

\* C12 witness: with a listener registered, an "llm" helper was acquired,
\* marked failed and released, and the aggregator is still untouched.
C12_Witness ==
    /\ timing.trail = <<"enter", "mark_failed", "exit">>
    /\ timing.operation_type = "llm"
    /\ listeners = <<"f">>
    /\ tres.op = "add_listener"
    /\ stats.llm_calls = 0
    /\ stats.llm_times = <<>>

\* what the release of a helper acquired at start_time records when
\* time.perf_counter() is perf
ReleaseDuration == (perf - timing.start_time[1]) * 1000

\* C13: the release of an acquisition on which mark_failed was not called
\* records exactly one sample of the configured kind (fast_path: one more
\* fast-path hit and that duration appended to the fast-path window, the LLM
\* figures untouched; llm: one more LLM call and that duration appended to the
\* LLM window, the fast-path figures untouched), whether or not an exception
\* is propagating, and returns False, so the exception goes on propagating.
\* (What repeated releases of one acquisition add up to is C31's subject.)
C13_ReleaseRecordsOneSample ==
    [][\A exc \in BOOLEAN :
          (DoExit(exc) /\ timing.trail # <<>>
                       /\ timing.trail[Len(timing.trail)] = "enter") =>
              /\ timing.operation_type = "fast_path" =>
                    /\ stats'.fast_path_hits = stats.fast_path_hits + 1
                    /\ stats'.fast_path_times =
                          DequeAppend(stats.fast_path_times, ReleaseDuration)
                    /\ stats'.llm_calls = stats.llm_calls
                    /\ stats'.llm_times = stats.llm_times
              /\ timing.operation_type = "llm" =>
                    /\ stats'.llm_calls = stats.llm_calls + 1
                    /\ stats'.llm_times =
                          DequeAppend(stats.llm_times, ReleaseDuration)
                    /\ stats'.fast_path_hits = stats.fast_path_hits
                    /\ stats'.fast_path_times = stats.fast_path_times
              /\ timing'.returned = <<FALSE>>
              /\ timing'.exc = exc]_vars

\* C13 witness: an "llm" helper was acquired and, one second later, released
\* while an exception was propagating; one LLM call of 1000 ms is recorded and
\* the release returned False.
C13_Witness ==
    /\ timing.trail = <<"enter", "exit">>
    /\ timing.operation_type = "llm"
    /\ timing.exc
    /\ timing.returned = <<FALSE>>
    /\ stats.llm_calls = 1
    /\ stats.llm_times = <<1000>>
    /\ stats.fast_path_hits = 0

\* the call made last, and the descriptor of its domain
Validated == reg.fn = "validate_domain_action"
Registered == reg.domain \in DOMAIN DOMAIN_REGISTRY
Descriptor == DOMAIN_REGISTRY[reg.domain]
Services == Descriptor.services

\* C14: validate_domain_action(domain, service), for a registered domain and a
\* service of its services list, returns (True, service).
C14_KnownPairsSucceed ==
    (Validated /\ Registered /\ InList(reg.action, Services)) =>
        reg.result = <<TRUE, reg.action>>

\* C15: for an alias a -> b of ACTION_ALIASES and a registered domain that is
\* not read-only, validate_domain_action(domain, a) succeeds exactly when b is
\* one of the domain's services, and then returns b.
C15_AliasSucceedsIffTargetService ==
    (Validated /\ Registered /\ Descriptor.type # TYPE_READ_ONLY
               /\ reg.action \in DOMAIN ACTION_ALIASES) =>
        /\ reg.result[1] <=> InList(ACTION_ALIASES[reg.action], Services)
        /\ reg.result[1] => reg.result[2] = ACTION_ALIASES[reg.action]

\* C15 as amended: the same, for an alias that is not itself one of the
\* domain's services.
C15_AliasNotServiceSucceedsIffTargetService ==
    (Validated /\ Registered /\ Descriptor.type # TYPE_READ_ONLY
               /\ reg.action \in DOMAIN ACTION_ALIASES
               /\ ~InList(reg.action, Services)) =>
        /\ reg.result[1] <=> InList(ACTION_ALIASES[reg.action], Services)
        /\ reg.result[1] => reg.result[2] = ACTION_ALIASES[reg.action]

\* C15 witness: light/activate was validated and gave turn_on.
C15_Witness ==
    /\ Validated
    /\ reg.domain = "light"
    /\ reg.action = "activate"
    /\ reg.result = <<TRUE, "turn_on">>

\* C16: validate_domain_action succeeds exactly when the domain is registered,
\* is not read-only and map_action_to_service gives one of its services; what
\* a success returns is one of the domain's services; for a registered domain
\* that is not read-only every other result is the "not valid" message listing
\* the first min(5, n) of its n services.
C16_SuccessIffMappedServiceListed ==
    Validated =>
        /\ reg.result[1] <=>
              /\ Registered
              /\ Descriptor.type # TYPE_READ_ONLY
              /\ InList(map_action_to_service(reg.domain, reg.action), Services)
        /\ reg.result[1] => InList(reg.result[2], Services)
        /\ (Registered /\ Descriptor.type # TYPE_READ_ONLY /\ ~reg.result[1]) =>
              reg.result[2] =
                  "Action '" \o reg.action \o "' not valid for " \o reg.domain
                      \o ". Available: "
                      \o Join(SubSeq(Services, 1, Min(5, Len(Services))), ", ")

\* C16 witness: climate/heat was validated and gave set_hvac_mode, which the
\* alias table, not the caller, named.
C16_Witness ==
    /\ Validated
    /\ reg.domain = "climate"
    /\ reg.action = "heat"
    /\ reg.result = <<TRUE, "set_hvac_mode">>

\* C17: for a read-only domain validate_domain_action returns, whatever the
\* action (one of the domain's own services included), the rejection whose
\* message is the descriptor's error_message if it has one and the generic
\* read-only message otherwise.
C17_ReadOnlyRejected ==
    (Validated /\ Registered /\ Descriptor.type = TYPE_READ_ONLY) =>
        /\ ~reg.result[1]
        /\ reg.result[2] =
              IF Descriptor.error_message # <<>> THEN Descriptor.error_message[1]
              ELSE "Domain '" \o reg.domain
                      \o "' is read-only. Use 'get_entity_details' to read values."

\* C17 witness: weather/get_forecast, a service of the read-only weather
\* domain, which has no error_message, was rejected with the generic message.
C17_Witness ==
    /\ Validated
    /\ reg.domain = "weather"
    /\ reg.action = "get_forecast"
    /\ reg.result = <<FALSE,
          "Domain 'weather' is read-only. Use 'get_entity_details' to read values.">>

\* the registered domains whose name contains the input or is contained in it,
\* in registry order
Suggestions ==
    LET Near(i) == \/ IsSubstring(reg.domain, DOMAIN_REGISTRY_keys[i])
                   \/ IsSubstring(DOMAIN_REGISTRY_keys[i], reg.domain)
        Rank(i) == Cardinality({j \in 1..i : Near(j)})
        n == Cardinality({j \in 1..Len(DOMAIN_REGISTRY_keys) : Near(j)})
    IN  [k \in 1..n |->
            DOMAIN_REGISTRY_keys[CHOOSE i \in 1..Len(DOMAIN_REGISTRY_keys) :
                                    Near(i) /\ Rank(i) = k]]

\* C18: for a domain the registry lacks, validate_domain_action returns, for
\* every action, the "not supported" rejection; it suggests the first three
\* (or fewer) registered domains, in registry order, whose name contains the
\* input or is contained in it, and suggests nothing when there is none.
C18_UnknownDomainRejected ==
    (Validated /\ ~Registered) =>
        /\ ~reg.result[1]
        /\ reg.result[2] =
              IF Suggestions = <<>>
              THEN "Domain '" \o reg.domain
                      \o "' not supported. Use 'list_domains' to see available domains."
              ELSE "Domain '" \o reg.domain \o "' not supported. Did you mean: "
                      \o Join(SubSeq(Suggestions, 1, Min(3, Len(Suggestions))), ", ")
                      \o "?"

\* C18 witness: "light_switch" was validated: it contains "light" and "switch".
C18_Witness ==
    /\ Validated
    /\ reg.domain = "light_switch"
    /\ reg.result =
          <<FALSE, "Domain 'light_switch' not supported. Did you mean: light, switch?">>

\* the required parameters of the call's (domain, service) that were not given
MissingRequired ==
    LET required == get_service_parameters(reg.domain, reg.action).required
        Absent(p) == p \notin reg.provided
    IN  SelectSeq(required, Absent)

\* C19: validate_service_parameters rejects exactly when a required parameter
\* of (domain, service) is not among the provided ones, and then names the
\* missing required parameters and nothing else; optional and unknown
\* parameters, given or not, change nothing; a (domain, service) without a
\* parameters entry, the domain being registered or not, is accepted.
C19_RejectedIffRequiredMissing ==
    reg.fn = "validate_service_parameters" =>
        /\ reg.result[1] <=> MissingRequired = <<>>
        /\ ~reg.result[1] =>
              reg.result[2] =
                  "Missing required parameters for " \o reg.domain \o "."
                      \o reg.action \o ": " \o Join(MissingRequired, ", ")
        /\ (~Registered \/ reg.action \notin DOMAIN Descriptor.parameters) =>
              reg.result = <<TRUE, "Parameters valid">>

\* C19 witness: tts.speak was validated with only its optional "cache" and an
\* unknown parameter given, and both required parameters were reported.
C19_Witness ==
    /\ reg.fn = "validate_service_parameters"
    /\ reg.domain = "tts"
    /\ reg.action = "speak"
    /\ reg.provided = {"cache", "unknown_parameter"}
    /\ reg.result =
          <<FALSE, "Missing required parameters for tts.speak: media_player_entity_id, message">>

\* the domain-specific mappings: <<domain, action, service>>
DomainMappings ==
    {<<"cover", "raise", "open_cover">>, <<"cover", "lift", "open_cover">>,
     <<"cover", "lower", "close_cover">>, <<"cover", "drop", "close_cover">>,
     <<"lock", "secure", "lock">>, <<"lock", "unsecure", "unlock">>,
     <<"vacuum", "clean", "start">>, <<"vacuum", "dock", "return_to_base">>,
     <<"vacuum", "home", "return_to_base">>}

\* C20: validate_domain_action succeeds with open_cover for cover/raise and
\* cover/lift, close_cover for cover/lower and cover/drop, lock for
\* lock/secure, unlock for lock/unsecure, start for vacuum/clean and
\* return_to_base for vacuum/dock and vacuum/home.
C20_DomainMappingsSucceed ==
    \A m \in DomainMappings :
        (Validated /\ reg.domain = m[1] /\ reg.action = m[2]) =>
            reg.result = <<TRUE, m[3]>>

\* C20 witness: cover/lift, which only the cover branch maps, gave open_cover.
C20_Witness ==
    /\ Validated
    /\ reg.domain = "cover"
    /\ reg.action = "lift"
    /\ reg.result = <<TRUE, "open_cover">>

\* round(num / den, 0) with a tie rounded up
RoundHalfUp(num, den) == (2 * num + den) \div (2 * den)

\* v is hits / total as a percentage rounded to one decimal (in tenths), a
\* tie rounded to even or up; 0 when total is 0
IsRoundedRate(v, hits, total) ==
    IF total = 0 THEN v = 0
    ELSE \/ v = RoundHalfEven(1000 * hits, total)
         \/ v = RoundHalfUp(1000 * hits, total)

\* C21: fast_path_rate and pre_resolve_rate are 0.0 when hits + misses, resp.
\* attempts, is 0 and round(100 * hits / total, 1) otherwise; both lie in
\* [0, 100]; after 3 fast-path hits and 1 miss fast_path_rate is 75.0.
C21_RatesAreRoundedPercentages ==
    /\ IsRoundedRate(fast_path_rate(stats), stats.fast_path_hits,
                     stats.fast_path_hits + stats.fast_path_misses)
    /\ IsRoundedRate(pre_resolve_rate(stats), stats.pre_resolve_hits,
                     stats.pre_resolve_attempts)
    /\ fast_path_rate(stats) \in 0..1000
    /\ pre_resolve_rate(stats) \in 0..1000
    /\ (stats.fast_path_hits = 3 /\ stats.fast_path_misses = 1) =>
          fast_path_rate(stats) = 750

\* the turns stored for c, none when c has no entry
Stored(c) == IF c \in DOMAIN conversations THEN conversations[c] ELSE <<>>

\* the last min(n, len(turns)) of turns, in order
LastTurns(turns, n) ==
    SubSeq(turns, Len(turns) - Min(n, Len(turns)) + 1, Len(turns))

\* C22: get_recent_context(c, max_turns), for every max_turns >= 0, returns
\* without raising and renders the last min(max_turns, len(history)) turns of
\* what the eviction pass leaves of c's history, in order; it renders nothing
\* when that is empty.
C22_RecentContextRendersLastTurns ==
    hres.op = "get_recent_context" =>
        /\ hres.raised = ""
        /\ hres.ret = LastTurns(Stored(hres.conv), hres.arg)

\* C23: the list get_history returns is a copy: a caller appending to it,
\* removing from it or reversing it leaves the stored history as it was, and
\* a get_history(c) that follows such edits, with no add_turn or clear in
\* between and no turn expired meanwhile, returns the turns returned before.
C23_ReturnedListIsACopy ==
    [][/\ \A edit \in ListEdits :
              EditReturnedList(edit) => conversations' = conversations
       /\ \A c \in ConvIds :
              (/\ GetHistory(c)
               /\ hres.op = "get_history" /\ hres.conv = c /\ hres.raised = ""
               /\ hres.held[1].edits > 0
               /\ AllFresh(hres.ret, now)) =>
                  /\ hres'.raised = ""
                  /\ hres'.ret = hres.ret]_vars

\* C23 witness: get_history returned two turns again after the caller had
\* edited the list it got from the call before.
C23_Witness ==
    /\ hres.op = "get_history"
    /\ hres.after_edits
    /\ Len(hres.ret) = 2
    /\ hres.ret = Stored(hres.conv)

\* C24: add_turn never raises, whatever max_history_age and
\* max_turns_per_conversation are and whatever was stored before, also when
\* the eviction pass removes the turn just added and deletes the entry.
C24_AddTurnNeverFails ==
    hres.op = "add_turn" => hres.raised = ""

\* the entry of conversation o, and whether it has one, stay as they are
EntryUnchanged(o) ==
    /\ o \in DOMAIN conversations' <=> o \in DOMAIN conversations
    /\ o \in DOMAIN conversations => conversations'[o] = conversations[o]

\* C25: add_turn(c), get_history(c), get_recent_context(c) and
\* clear_conversation(c) leave the turn sequence of every other conversation
\* as it was, expired turns included.
C25_OtherConversationsUntouched ==
    [][\A c \in ConvIds :
          \/ \A o \in ConvIds \ {c} : EntryUnchanged(o)
          \/ ~(\/ AddTurn(c) \/ GetHistory(c) \/ ClearConversation(c)
               \/ \E k \in 0..MaxContextArg : GetRecentContext(c, k))]_vars

\* every turn of the sequence is older than max_history_age at time t
AllExpired(seq, t) ==
    \A i \in 1..Len(seq) : ~(seq[i].timestamp > t - max_history_age)

\* C25 witness: c1 was just touched while c2 still holds a turn that has
\* expired.
C25_Witness ==
    /\ hres.op \in {"add_turn", "get_history", "get_recent_context"}
    /\ hres.conv = "c1"
    /\ hres.t = now
    /\ "c2" \in DOMAIN conversations
    /\ AllExpired(conversations["c2"], now)

\* C26: History get_stats leaves the mapping as it is and counts what it
\* holds: a conversation whose turns have all expired stays in the mapping,
\* counted with its turns, until a call names it or clear_all runs.
C26_EvictionIsLazy ==
    [][/\ HistoryGetStats =>
              /\ conversations' = conversations
              /\ hres'.ret = <<Cardinality(DOMAIN conversations),
                               total_turns(conversations)>>
       /\ \A c \in DOMAIN conversations :
              c \notin DOMAIN conversations' =>
                  \/ hres'.op = "clear_all"
                  \/ /\ hres'.conv = c
                     /\ hres'.op \in {"add_turn", "get_history", "get_recent_context",
                                      "clear_conversation"}]_vars

\* C26 witness: get_stats counted a conversation all of whose turns had
\* expired.
C26_Witness ==
    /\ hres.op = "get_stats"
    /\ hres.t = now
    /\ hres.ret[1] >= 1
    /\ hres.ret[2] >= 1
    /\ \E c \in DOMAIN conversations : AllExpired(conversations[c], now)

\* C27: clear_conversation(c) removes c's entry if there is one, changes
\* nothing and raises nothing if there is none, and leaves the other entries;
\* clear_all empties the mapping; for an id without an entry get_history
\* returns the empty list and get_stats does not count it.
C27_ClearRemoves ==
    [][/\ \A c \in ConvIds :
              ClearConversation(c) =>
                  /\ hres'.raised = ""
                  /\ DOMAIN conversations' = DOMAIN conversations \ {c}
                  /\ c \notin DOMAIN conversations => conversations' = conversations
       /\ ClearAll => (hres'.raised = "" /\ DOMAIN conversations' = {})
       /\ \A c \in ConvIds :
              (GetHistory(c) /\ hres.op \in {"clear_conversation", "clear_all"}
                             /\ hres.conv \in {c, ""}) =>
                  (hres'.ret = <<>> /\ hres'.raised = "")
       /\ (HistoryGetStats /\ hres.op \in {"clear_conversation", "clear_all"}) =>
              hres'.ret[1] = Cardinality(DOMAIN conversations \ {hres.conv})]_vars

\* C27 witness: clear_conversation("c1") has run, c1 has no entry, and c2
\* still holds the first of the two turns added.
C27_Witness ==
    /\ hres.op = "clear_conversation"
    /\ hres.conv = "c1"
    /\ "c1" \notin DOMAIN conversations
    /\ seq_no = 2
    /\ now = 0
    /\ max_history_age >= 1
    /\ "c2" \in DOMAIN conversations
    /\ conversations["c2"][1].user = 1

\* a call of one of the three methods that run _check_date_rollover
RolloverStep ==
    \/ DoRecordRequest
    \/ DoGetStats
    \/ \E duration_ms \in Durations, tokens \in Tokens : DoRecordLlmCall(duration_ms, tokens)

\* a call of one of the five recording methods without a rollover check
QuietStep ==
    \/ DoRecordFastPathMiss
    \/ DoRecordLlmError
    \/ \E duration_ms \in Durations : DoRecordFastPathHit(duration_ms)
    \/ \E success \in BOOLEAN : DoRecordPreResolveAttempt(success)
    \/ \E status \in Statuses : DoSetStatus(status)

DailyCounters(st) == <<st.requests_today, st.llm_calls_today, st.tokens_today>>

\* a listener notified by the call read get_stats
ListenerReadStats(log) == \E i \in 1..Len(log) : log[i].seen # <<>>

\* the object after the day transition to d
RolledOver(st, d) ==
    [st EXCEPT !.current_date = d, !.requests_today = 0,
               !.llm_calls_today = 0, !.tokens_today = 0]

\* C28 as stated: current_date changes only in a record_request,
\* record_llm_call or get_stats call and only when today differs from it; the
\* transition zeroes the three daily counters and leaves everything else;
\* record_fast_path_hit, record_fast_path_miss, record_pre_resolve_attempt,
\* record_llm_error and set_status never change current_date or the daily
\* counters.
C28_RolloverOnlyInThreeMethods ==
    [][/\ stats'.current_date # stats.current_date =>
              /\ RolloverStep
              /\ today # stats.current_date
              /\ stats'.current_date = today
       /\ DoGetStats =>
              /\ listeners' = listeners
              /\ stats' = IF today # stats.current_date
                          THEN RolledOver(stats, today) ELSE stats
       /\ QuietStep =>
              /\ stats'.current_date = stats.current_date
              /\ DailyCounters(stats') = DailyCounters(stats)]_vars

\* C28, amended: the rollover runs in record_request, record_llm_call and
\* get_stats, the get_stats of a notified listener included; the five other
\* methods leave current_date and the daily counters alone unless a listener
\* they notify reads get_stats, and then the object is rolled over to today.
C28_RolloverOnlyThroughThreeMethods ==
    [][/\ stats'.current_date # stats.current_date =>
              /\ RolloverStep \/ (QuietStep /\ ListenerReadStats(tres'.log))
              /\ today # stats.current_date
              /\ stats'.current_date = today
       /\ DoGetStats =>
              /\ listeners' = listeners
              /\ stats' = IF today # stats.current_date
                          THEN RolledOver(stats, today) ELSE stats
       /\ (QuietStep /\ ~ListenerReadStats(tres'.log)) =>
              /\ stats'.current_date = stats.current_date
              /\ DailyCounters(stats') = DailyCounters(stats)
       /\ (QuietStep /\ ListenerReadStats(tres'.log)) =>
              /\ stats'.current_date = today
              /\ DailyCounters(stats') = IF today # stats.current_date
                                         THEN <<0, 0, 0>> ELSE DailyCounters(stats)]_vars

\* C28 witness: on day 1 record_fast_path_miss notified a listener that read
\* get_stats, and the object that was on day 0 is on day 1.
C28_Witness ==
    /\ tres.op = "record_fast_path_miss"
    /\ tres.day = 1
    /\ tres.date_before = 0
    /\ ListenerReadStats(tres.log)
    /\ stats.current_date = 1
    /\ stats.fast_path_misses >= 1

\* the counters that are never reset
Cumulative(st) ==
    <<st.fast_path_hits, st.fast_path_misses, st.pre_resolve_hits,
      st.pre_resolve_attempts, st.llm_calls, st.llm_errors, st.tokens_used>>

\* C29: over any sequence of record_* calls (token counts >= 0), set_status,
\* get_stats and date changes, none of fast_path_hits, fast_path_misses,
\* pre_resolve_hits, pre_resolve_attempts, llm_calls, llm_errors and
\* tokens_used ever decreases.
C29_CumulativeCountersNeverDecrease ==
    [][\A i \in 1..7 : Cumulative(stats')[i] >= Cumulative(stats)[i]]_vars

\* C29 witness: an LLM call with tokens was recorded on day 0 and the object
\* has since rolled over to day 1 with its totals kept.
C29_Witness ==
    /\ stats.current_date = 1
    /\ stats.llm_calls_today = 0
    /\ stats.llm_calls >= 1
    /\ stats.tokens_used >= 5

\* the window after sample x arrived: the oldest sample leaves a full window
Recorded(q, x) == IF Len(q) = MaxSamples THEN Append(Tail(q), x) ELSE Append(q, x)

\* v, in tenths, is the mean of the samples of q to the nearest tenth
IsMeanOf(v, q) ==
    IF q = <<>> THEN v = 0
    ELSE 2 * (10 * Sum(q) - v * Len(q)) <= Len(q) /\ 2 * (v * Len(q) - 10 * Sum(q)) <= Len(q)

\* what a listener of the call read from get_stats, if one did
Reported(log) == LastSeen(log, today)

\* C30: a window never holds more than 100 samples; a sample recorded into a
\* full window takes the place of the oldest and the others keep their order;
\* the average reported is the mean of the samples in the window (to one
\* decimal) and 0 for an empty window; the last value is the sample recorded
\* most recently.
C30_WindowKeepsLatestSamples ==
    [][/\ Len(stats'.fast_path_times) <= 100 /\ Len(stats'.llm_times) <= 100
       /\ \A x \in Durations :
              /\ WindowHit(x) =>
                     /\ stats'.fast_path_times = Recorded(stats.fast_path_times, x)
                     /\ stats'.fast_path_last = x
                     /\ stats'.llm_times = stats.llm_times
                     /\ stats'.llm_last = stats.llm_last
              /\ WindowLlm(x) =>
                     /\ stats'.llm_times = Recorded(stats.llm_times, x)
                     /\ stats'.llm_last = x
                     /\ stats'.fast_path_times = stats.fast_path_times
                     /\ stats'.fast_path_last = stats.fast_path_last
       /\ LET d == StatsDict(stats')
          IN  /\ IsMeanOf(d.fast_path_avg_response_time, stats'.fast_path_times)
              /\ IsMeanOf(d.llm_avg_response_time, stats'.llm_times)
              /\ d.fast_path_last_response_time = 10 * stats'.fast_path_last
              /\ d.llm_last_response_time = 10 * stats'.llm_last
       /\ Reported(tres'.log) # <<>> =>
              Reported(tres'.log)[1].ret = StatsDict(stats')]_vars

\* C30 witness: 101 samples went into the fast-path window, which holds the
\* last 100 of them: the long 100th sample is now in place 99.
C30_Witness ==
    /\ stats.fast_path_hits = 101
    /\ Len(stats.fast_path_times) = 100
    /\ stats.fast_path_times[99] = 20
    /\ stats.fast_path_last = 10
    /\ StatsDict(stats).fast_path_avg_response_time = 101

\* C31: for each acquisition of the timing helper at most one sample is
\* recorded in the aggregator, whatever release and mark_failed calls follow
\* it, a second release without a new acquisition included.
C31_OneSamplePerAcquisition ==
    timing.recorded <= 1

\* C32: when the token callback of an "llm" helper raises at release, the
\* release records one LLM call with its duration and 0 tokens (tokens_used
\* unchanged, nothing added to tokens_today), returns False and raises
\* nothing.
C32_TokenCallbackErrorSwallowed ==
    [][\A exc \in BOOLEAN :
          (DoExit(exc) /\ timing.operation_type = "llm"
                       /\ timing.tokens_callback.kind = "raises"
                       /\ timing.start_time # <<>>) =>
              /\ stats'.llm_calls = stats.llm_calls + 1
              /\ stats'.llm_times = DequeAppend(stats.llm_times, ReleaseDuration)
              /\ stats'.llm_last = ReleaseDuration
              /\ stats'.tokens_used = stats.tokens_used
              /\ stats'.tokens_today =
                    IF today # stats.current_date THEN 0 ELSE stats.tokens_today
              /\ tres'.op = "record_llm_call"
              /\ tres'.arg = <<ReleaseDuration, 0>>
              /\ tres'.raised = ""
              /\ timing'.returned = <<FALSE>>]_vars

\* C32 witness: an "llm" helper whose token callback raises was acquired and,
\* one second later, released: one LLM call of 1000 ms with no tokens.
C32_Witness ==
    /\ timing.trail = <<"enter", "exit">>
    /\ timing.operation_type = "llm"
    /\ timing.tokens_callback.kind = "raises"
    /\ timing.returned = <<FALSE>>
    /\ stats.llm_calls = 1
    /\ stats.llm_times = <<1000>>
    /\ stats.tokens_used = 0
    /\ tres.op = "record_llm_call"
    /\ tres.raised = ""

Mapped == reg.fn = "map_action_to_service"

\* the domain-specific mappings of map_action_to_service: action -> the domain
\* they are written for, and what they give there
OverrideDomain ==
    [raise |-> "cover", lift |-> "cover", lower |-> "cover", drop |-> "cover",
     secure |-> "lock", unsecure |-> "lock",
     clean |-> "vacuum", dock |-> "vacuum", home |-> "vacuum"]
OverrideTarget ==
    [raise |-> "open_cover", lift |-> "open_cover", lower |-> "close_cover",
     drop |-> "close_cover", secure |-> "lock", unsecure |-> "unlock",
     clean |-> "start", dock |-> "return_to_base", home |-> "return_to_base"]

\* the action is an alias for the domain: a key of ACTION_ALIASES or a
\* domain-specific mapping of that domain
IsAlias(domain, action) ==
    \/ action \in DOMAIN ACTION_ALIASES
    \/ action \in DOMAIN OverrideDomain /\ OverrideDomain[action] = domain

\* C33: map_action_to_service always returns a name; an action that is one
\* of the domain's services is returned as it is, also when it is a key of
\* ACTION_ALIASES; an action that is neither a service of the domain nor an
\* alias is returned as it is.
C33_ServiceNamesBeforeAliases ==
    Mapped =>
        /\ Len(reg.result) = 1
        /\ (Registered /\ InList(reg.action, Services)) => reg.result = <<reg.action>>
        /\ (~(Registered /\ InList(reg.action, Services))
                /\ ~IsAlias(reg.domain, reg.action)) => reg.result = <<reg.action>>

\* C33 witness: vacuum/stop was mapped and came back as stop, not as the
\* turn_off the alias table holds for it.
C33_Witness ==
    /\ Mapped
    /\ reg.domain = "vacuum"
    /\ reg.action = "stop"
    /\ ACTION_ALIASES["stop"] = "turn_off"
    /\ reg.result = <<"stop">>

\* C34: the domain-specific mappings apply in their domain only: clean gives
\* start for vacuum alone (secure/unsecure for lock, raise/lower for cover,
\* dock/home for vacuum); for any other domain the action is returned
\* unresolved, and validate_domain_action("timer", "clean") is rejected.
C34_OverridesOnlyInTheirDomain ==
    /\ (Mapped /\ reg.action \in {"clean", "secure", "unsecure", "raise", "lower",
                                  "dock", "home"}) =>
           IF reg.domain = OverrideDomain[reg.action]
           THEN reg.result = <<OverrideTarget[reg.action]>>
           ELSE reg.result = <<reg.action>>
    /\ (Validated /\ reg.domain = "timer" /\ reg.action = "clean") => ~reg.result[1]

\* C35: for a registered domain without open_cover among its services,
\* map_action_to_service(domain, "open") is not open_cover.
C35_OpenIsNotOpenCover ==
    (Mapped /\ Registered /\ reg.action = "open" /\ ~InList("open_cover", Services)) =>
        reg.result # <<"open_cover">>

\* C36: every service that is a key of a domain's parameters map is in the
\* domain's services list.
C36_ParameterKeysAreServices ==
    Registered =>
        LET info == get_domain_info(reg.domain)[1]
        IN  \A service \in DOMAIN info.parameters : InList(service, info.services)

\* C36 witness: the parameters of climate/set_hvac_mode, a service with an
\* entry in the parameters map, were validated.
C36_Witness ==
    /\ reg.fn = "validate_service_parameters"
    /\ reg.domain = "climate"
    /\ reg.action = "set_hvac_mode"
    /\ "set_hvac_mode" \in DOMAIN DOMAIN_REGISTRY["climate"].parameters
    /\ reg.provided = {"hvac_mode"}
    /\ reg.result[1]

\* how many times the notification called cb
Invocations(log, cb) == Cardinality({i \in 1..Len(log) : log[i].cb = cb})

\* C37: when a listener calls a remove_listener closure (its own or another
\* listener's) during a notification, every listener that was registered when
\* the notification began and is still registered after it was called exactly
\* once in that notification.
C37_UnsubscribeDuringNotification ==
    (tres.op \in NotifyingOps /\ tres.registered # listeners) =>
        \A i \in 1..Len(tres.registered) :
            InList(tres.registered[i], listeners) =>
                Invocations(tres.log, tres.registered[i]) = 1

\* C38: in every state of the aggregator (token counts >= 0)
\* pre_resolve_hits <= pre_resolve_attempts, llm_calls_today <= llm_calls,
\* tokens_today <= tokens_used, and no counter is negative.
C38_CounterRelations ==
    /\ stats.pre_resolve_hits <= stats.pre_resolve_attempts
    /\ stats.llm_calls_today <= stats.llm_calls
    /\ stats.tokens_today <= stats.tokens_used
    /\ \A i \in 1..7 : Cumulative(stats)[i] >= 0
    /\ \A i \in 1..3 : DailyCounters(stats)[i] >= 0

\* C38 witness: an LLM call with tokens on each of two days and a failed
\* pre-resolve attempt: today's figures are below the totals.
C38_Witness ==
    /\ stats.current_date = 1
    /\ stats.llm_calls = 2
    /\ stats.llm_calls_today = 1
    /\ stats.tokens_used = 10
    /\ stats.tokens_today = 5
    /\ stats.pre_resolve_attempts = 1
    /\ stats.pre_resolve_hits = 0

\* C39: a turn belongs to the stored sequence alone: after a caller changed a
\* field of a turn record it got from get_history, get_history and
\* get_recent_context still report every turn as add_turn stored it.
C39_TurnsNotShared ==
    (hres.op \in {"get_history", "get_recent_context"} /\ hres.raised = "") =>
        \A i \in 1..Len(hres.ret) : InList(hres.ret[i], added[hres.conv])

====
